---------------------------- MODULE Spec2Model ----------------------------
(***************************************************************************)
(* Model of GLOVE's shader program (shaderProgram.cpp) and resource        *)
(* manager (resourceManager.cpp): program linking, descriptor objects,     *)
(* vertex-input bindings, index-buffer preparation, program binaries and   *)
(* the deferred deletion of shading objects.                               *)
(*                                                                         *)
(* One set of variables is shared by several specifications; each          *)
(* specification starts the part of the state it does not exercise at the  *)
(* value the constructors give it and leaves it alone.                     *)
(***************************************************************************)
EXTENDS Integers, Sequences, FiniteSets, TLC

(***************************************************************************)
(* Bounds of the model.                                                    *)
(***************************************************************************)
\* shader objects that can be created in the purge specification
NumShaders == 2
\* shader programs that can be created in the purge specification
NumPrograms == 2
\* cap of a shader's reference count (AttachShader may bind without end)
MaxRef == 2

\* native objects one program may create over its life (caps relinking)
MaxVkObjects == 8
\* vertex buffer objects the client binds to attribute locations
NumVertexBuffers == 2
\* texture objects the client created
NumTextures == 2
\* texture units a sampler uniform may name
NumUnits == 2
\* indices one draw call passes
MaxIndexCount == 2
\* words of SPIR-V one shader holds
MaxSpvWords == 2
\* addresses the allocator hands out for explicit index buffers
NumIndexBuffers == 3
NumObjects == 1
MaxObjectRef == 1
\* framebuffer objects, and names of textures and renderbuffers attached to them
NumFramebuffers == 2
NumAttachmentNames == 1

(***************************************************************************)
(* Values of the source.                                                   *)
(***************************************************************************)
\* implementation limits tested at src line 417-419; their values are set outside
\* the shown files and are scaled down here
GLOVE_MAX_VERTEX_ATTRIBS == 3
GLOVE_MAX_VERTEX_UNIFORM_VECTORS == 3
GLOVE_MAX_FRAGMENT_UNIFORM_VECTORS == 2
GL_FLOAT == "GL_FLOAT"
GL_SAMPLER_2D == "GL_SAMPLER_2D"
GL_SAMPLER_CUBE == "GL_SAMPLER_CUBE"
GL_TEXTURE == "GL_TEXTURE"
GL_NONE == "GL_NONE"
GL_RENDERBUFFER == "GL_RENDERBUFFER"
GL_UNSIGNED_BYTE == "GL_UNSIGNED_BYTE"
GL_UNSIGNED_SHORT == "GL_UNSIGNED_SHORT"
GL_UNSIGNED_INT == "GL_UNSIGNED_INT"
NullPtr == 0
VK_NULL_HANDLE == 0
SHADER_TYPE_VERTEX == "SHADER_TYPE_VERTEX"
SHADER_TYPE_FRAGMENT == "SHADER_TYPE_FRAGMENT"
SHADER_ID == "SHADER_ID"
SHADER_PROGRAM_ID == "SHADER_PROGRAM_ID"

VARIABLES
    \* ---- Shader objects (index = position in the resource manager's array)
    shState,        \* "none" (never allocated), "live", "freed" (deallocated)
    shType,         \* Shader::GetShaderType
    shCompiled,     \* Shader::IsCompiled
    shRef,          \* refObject reference count (Bind / Unbind)
    shMark,         \* refObject mark-for-deletion flag
    shSpv,          \* Shader::GetSPV, a sequence of 32-bit words
    shFreed,        \* how many times DeallocateShader ran on the object
    shSurvived,     \* a sweep examined the shader in the purge list and kept it
    \* ---- ShaderProgram objects
    prState,        \* "none", "live", "freed"
    prRef,          \* refObject reference count
    prMark,         \* refObject mark-for-deletion flag
    mShaders,       \* per program <<vertex slot, fragment slot>>, NullPtr if empty
    \* ---- ResourceManager: shading namespace and purge lists
    mShadingObjectPool,
    mShadingObjectCount,
    mPurgeListShaders,
    mPurgeListShaderPrograms,
    mPurgeListBufferObject,
    mPurgeListTexture,
    mPurgeListRenderbuffers,
    boState, boRef,     \* buffer objects: state and reference count
    texState, texRef,   \* textures
    rbState, rbRef,     \* renderbuffers
    \* ---- the ShaderProgram under study (program 1) and its collaborators
    program,            \* the members of the ShaderProgram object
    compilerReflection, \* what mShaderCompiler->GetShaderReflection() holds
    vkObjects,          \* native objects created so far: handle h is vkObjects[h]
    calls,              \* compiler and native calls made by the last operation
    ret,                \* the last operation and what it returned
    \* ---- the rendering context the program reads during a draw
    genericVertAttribs, \* per attribute location: the buffer and stride bound to it
    modeLineLoop,       \* Context::IsModeLineLoop of the current draw
    mTextures,          \* per texture: IsCompleted and IsNPOTAccessCompleted
    activeTexture,      \* per texture unit: the texture bound to GL_TEXTURE_2D
    mFramebuffers,      \* per framebuffer object: its color attachment
    boundFramebuffer,   \* the framebuffer drawn to, 0 for the window surface
    descriptorSet,      \* what the last vkUpdateDescriptorSets wrote, per block
    pendingWrites,      \* kinds of writes made since the last UpdateDescriptorSet
    lastUpdate,         \* the last UpdateDescriptorSet: its rank since the link,
                        \* the writes that preceded it, what its flush reported
    explicitIbo,        \* the buffer object mExplicitIbo points to
    indexDraw,          \* the last PrepareIndexBufferObject: arguments and outputs
    binary,             \* the client's buffer for program binaries, in 32-bit words
    binarySize,         \* the size GetBinaryData reported for it, in bytes
    binaryOf            \* the reflection and SPIR-V of the program that wrote it

shaderVars == <<shState, shType, shCompiled, shRef, shMark, shSpv, shFreed, shSurvived>>
programVars == <<prState, prRef, prMark, mShaders>>
poolVars == <<mShadingObjectPool, mShadingObjectCount>>
purgeVars == <<mPurgeListShaders, mPurgeListShaderPrograms, mPurgeListBufferObject,
               mPurgeListTexture, mPurgeListRenderbuffers>>
objectVars == <<boState, boRef, texState, texRef, rbState, rbRef>>
rmVars == <<shaderVars, programVars, poolVars, purgeVars, objectVars>>

progVars == <<program, compilerReflection, vkObjects, calls, ret>>

vertexVars == <<genericVertAttribs, modeLineLoop>>
textureVars == <<mTextures, activeTexture, mFramebuffers, boundFramebuffer>>
descriptorVars == <<descriptorSet, pendingWrites, lastUpdate>>
indexVars == <<explicitIbo, indexDraw>>
binaryVars == <<binary, binarySize, binaryOf>>
ctxVars == <<vertexVars, textureVars, descriptorVars, indexVars, binaryVars>>

vars == <<rmVars, progVars, ctxVars>>

(***************************************************************************)
(* refObject                                                               *)
(***************************************************************************)
FreeForDeletion(mark, ref) == mark /\ ref = 0

Unbind(ref) == IF ref > 0 THEN ref - 1 ELSE 0

(***************************************************************************)
(* ResourceManager: shading namespace                                      *)
(***************************************************************************)
ShadingObjectExists(index) == index \in DOMAIN mShadingObjectPool

\* the type tag is not compared
IsShadingObjectAnyType(index, type) ==
    IF index = 0 \/ index >= mShadingObjectCount \/ ~ShadingObjectExists(index)
    THEN FALSE
    ELSE mShadingObjectPool[index].arrayIndex # 0

IsShadingObject(index, type) ==
    IF index = 0 \/ index >= mShadingObjectCount \/ ~ShadingObjectExists(index)
    THEN FALSE
    ELSE mShadingObjectPool[index].arrayIndex # 0
         /\ mShadingObjectPool[index].type = type

\* the object is stored under the lowest ID the pool does not hold
PushShadingObjectPoolLowestFree(obj) ==
    LET id == CHOOSE i \in 1..mShadingObjectCount :
                  /\ i \notin DOMAIN mShadingObjectPool
                  /\ \A j \in 1..(i - 1) : j \in DOMAIN mShadingObjectPool
    IN [i \in DOMAIN mShadingObjectPool \cup {id} |->
            IF i = id THEN obj ELSE mShadingObjectPool[i]]

\* the pool after PushShadingObject(obj); the id returned is mShadingObjectCount
PushShadingObjectPool(obj) ==
    [id \in DOMAIN mShadingObjectPool \cup {mShadingObjectCount} |->
        IF id = mShadingObjectCount THEN obj ELSE mShadingObjectPool[id]]

\* the entry stays in the pool
EraseShadingObjectKept(pool, id) == pool

EraseShadingObject(pool, id) == [i \in DOMAIN pool \ {id} |-> pool[i]]

\* first pool entry (in key order) of the type with this array index, else 0
FindShadingID(pool, type, arrayIndex) ==
    LET hits == {id \in DOMAIN pool :
                    pool[id].type = type /\ pool[id].arrayIndex = arrayIndex}
    IN IF hits = {} THEN 0 ELSE CHOOSE id \in hits : \A o \in hits : id <= o

FindShaderID(pool, s) == FindShadingID(pool, SHADER_ID, s)
FindShaderProgramID(pool, p) == FindShadingID(pool, SHADER_PROGRAM_ID, p)


(***************************************************************************)
(* Shader and program objects: creation, deletion requests, program use    *)
(***************************************************************************)
Shaders == DOMAIN shState
Programs == DOMAIN prState

\* a shader is allocated in the first free array slot and given a shading ID
CreateShader(type) ==
    /\ \E s \in Shaders :
        /\ shState[s] = "none"
        /\ \A o \in Shaders : shState[o] = "none" => s <= o
        /\ shState' = [shState EXCEPT ![s] = "live"]
        /\ shType' = [shType EXCEPT ![s] = type]
        /\ mShadingObjectPool' = PushShadingObjectPool([type |-> SHADER_ID, arrayIndex |-> s])
        /\ mShadingObjectCount' = mShadingObjectCount + 1
    /\ UNCHANGED <<shCompiled, shRef, shMark, shSpv, shFreed, shSurvived, programVars,
                   purgeVars, objectVars, progVars, ctxVars>>

CreateProgram ==
    /\ \E p \in Programs :
        /\ prState[p] = "none"
        /\ \A o \in Programs : prState[o] = "none" => p <= o
        /\ prState' = [prState EXCEPT ![p] = "live"]
        /\ mShadingObjectPool' = PushShadingObjectPool([type |-> SHADER_PROGRAM_ID, arrayIndex |-> p])
        /\ mShadingObjectCount' = mShadingObjectCount + 1
    /\ UNCHANGED <<prRef, prMark, mShaders, shaderVars, purgeVars, objectVars, progVars, ctxVars>>

\* glDeleteShader: the request marks the object and hands it to the purge list
DeleteShader(id) ==
    /\ IsShadingObject(id, SHADER_ID)
    /\ LET s == mShadingObjectPool[id].arrayIndex IN
        /\ shMark' = [shMark EXCEPT ![s] = TRUE]
        /\ mPurgeListShaders' = mPurgeListShaders \cup {s}
    /\ UNCHANGED <<shState, shType, shCompiled, shRef, shSpv, shFreed, shSurvived, programVars,
                   poolVars, mPurgeListShaderPrograms, mPurgeListBufferObject,
                   mPurgeListTexture, mPurgeListRenderbuffers, objectVars, progVars, ctxVars>>

DeleteProgram(id) ==
    /\ IsShadingObject(id, SHADER_PROGRAM_ID)
    /\ LET p == mShadingObjectPool[id].arrayIndex IN
        /\ prMark' = [prMark EXCEPT ![p] = TRUE]
        /\ mPurgeListShaderPrograms' = mPurgeListShaderPrograms \cup {p}
    /\ UNCHANGED <<prState, prRef, mShaders, shaderVars, poolVars, mPurgeListShaders,
                   mPurgeListBufferObject, mPurgeListTexture, mPurgeListRenderbuffers,
                   objectVars, progVars, ctxVars>>

\* glUseProgram binds the program that becomes current and unbinds the previous one
UseProgram(id) ==
    /\ id = 0 \/ IsShadingObject(id, SHADER_PROGRAM_ID)
    /\ LET new == IF id = 0 THEN 0 ELSE mShadingObjectPool[id].arrayIndex IN
        /\ \A p \in Programs : prRef[p] > 0 => p # new
        /\ prRef' = [p \in Programs |-> IF p = new THEN 1 ELSE 0]
        /\ prRef' # prRef
    /\ UNCHANGED <<prState, prMark, mShaders, shaderVars, poolVars, purgeVars, objectVars, progVars, ctxVars>>

(***************************************************************************)
(* ShaderProgram: attached shaders                                         *)
(***************************************************************************)
SlotOf(type) == IF type = SHADER_TYPE_VERTEX THEN 1 ELSE 2

IsShaderAttached(slots, s) ==
    /\ s # NullPtr
    /\ \/ shType[s] = SHADER_TYPE_VERTEX /\ slots[1] = s
       \/ shType[s] = SHADER_TYPE_FRAGMENT /\ slots[2] = s

\* the slots of a program after AttachShader(s)
AttachedSlots(slots, s) == [slots EXCEPT ![SlotOf(shType[s])] = s]

AttachShader(p, s) ==
    /\ prState[p] = "live" /\ shState[s] = "live"
    /\ shRef[s] < MaxRef
    /\ shRef' = [shRef EXCEPT ![s] = @ + 1]
    /\ mShaders' = [mShaders EXCEPT ![p] = AttachedSlots(@, s)]
    /\ UNCHANGED <<shState, shType, shCompiled, shMark, shSpv, shFreed, shSurvived, prState,
                   prRef, prMark, poolVars, purgeVars, objectVars, progVars, ctxVars>>

\* slots and reference counts after DetachShader(s) on a program with these slots
DetachedSlots(slots, s) ==
    IF ~IsShaderAttached(slots, s) THEN slots
    ELSE IF shType[s] = SHADER_TYPE_VERTEX THEN [slots EXCEPT ![1] = NullPtr]
    ELSE IF shType[s] = SHADER_TYPE_FRAGMENT THEN [slots EXCEPT ![2] = NullPtr]
    ELSE slots

DetachedRefs(refs, slots, s) ==
    IF ~IsShaderAttached(slots, s) THEN refs ELSE [refs EXCEPT ![s] = Unbind(@)]

DetachShader(p, s) ==
    /\ prState[p] = "live" /\ shState[s] = "live"
    /\ IsShaderAttached(mShaders[p], s)
    /\ mShaders' = [mShaders EXCEPT ![p] = DetachedSlots(@, s)]
    /\ shRef' = DetachedRefs(shRef, mShaders[p], s)
    /\ UNCHANGED <<shState, shType, shCompiled, shMark, shSpv, shFreed, shSurvived, prState,
                   prRef, prMark, poolVars, purgeVars, objectVars, progVars, ctxVars>>

\* DetachShaders: the vertex slot first, then the fragment slot
DetachShadersRefs(refs, slots) ==
    LET r1 == IF slots[1] # NullPtr THEN DetachedRefs(refs, slots, slots[1]) ELSE refs
        s1 == IF slots[1] # NullPtr THEN DetachedSlots(slots, slots[1]) ELSE slots
    IN IF s1[2] # NullPtr THEN DetachedRefs(r1, s1, s1[2]) ELSE r1

DetachShadersSlots(slots) ==
    LET s1 == IF slots[1] # NullPtr THEN DetachedSlots(slots, slots[1]) ELSE slots
    IN IF s1[2] # NullPtr THEN DetachedSlots(s1, s1[2]) ELSE s1

(***************************************************************************)
(* ResourceManager::CleanPurgeList                                         *)
(***************************************************************************)
RECURSIVE DetachAll(_, _)
\* reference counts after DetachShaders ran on every program of the set
DetachAll(refs, ps) ==
    IF ps = {} THEN refs
    ELSE LET p == CHOOSE q \in ps : \A o \in ps : q <= o
         IN DetachAll(DetachShadersRefs(refs, mShaders[p]), ps \ {p})

RECURSIVE EraseAll(_, _, _)
\* the pool after Find...ID and EraseShadingObject ran for every object of the set
EraseAll(pool, type, objs) ==
    IF objs = {} THEN pool
    ELSE LET o == CHOOSE q \in objs : \A r \in objs : q <= r
         IN EraseAll(EraseShadingObject(pool, FindShadingID(pool, type, o)), type, objs \ {o})

\* every entry is freed, whatever its reference count
SweptObjectsUnchecked(list, ref) == list

\* the entries of a purge list of plain reference-counted objects that are freed
SweptObjects(list, ref) == {o \in list : ref[o] = 0}

\* the shader programs the sweep frees
SweptPrograms == {p \in mPurgeListShaderPrograms : FreeForDeletion(prMark[p], prRef[p])}

\* mutant: the shader sweep frees every entry, whatever its reference count
SweptShadersUnchecked(refs) == mPurgeListShaders

\* the shaders the sweep frees, given the reference counts after the program sweep
SweptShaders(refs) == {s \in mPurgeListShaders : FreeForDeletion(shMark[s], refs[s])}

CleanPurgeList ==
    LET bufs == SweptObjects(mPurgeListBufferObject, boRef)
        texs == SweptObjects(mPurgeListTexture, texRef)
        progs == SweptPrograms
        refs == DetachAll(shRef, progs)
        pool1 == EraseAll(mShadingObjectPool, SHADER_PROGRAM_ID, progs)
        shs == SweptShaders(refs)
        pool2 == EraseAll(pool1, SHADER_ID, shs)
        rbs == SweptObjects(mPurgeListRenderbuffers, rbRef)
    IN
    /\ mPurgeListBufferObject # {} \/ mPurgeListTexture # {} \/ mPurgeListRenderbuffers # {}
       \/ mPurgeListShaderPrograms # {} \/ mPurgeListShaders # {}
    /\ boState' = [b \in DOMAIN boState |-> IF b \in bufs THEN "freed" ELSE boState[b]]
    /\ mPurgeListBufferObject' = mPurgeListBufferObject \ bufs
    /\ texState' = [t \in DOMAIN texState |-> IF t \in texs THEN "freed" ELSE texState[t]]
    /\ mPurgeListTexture' = mPurgeListTexture \ texs
    /\ prState' = [p \in Programs |-> IF p \in progs THEN "freed" ELSE prState[p]]
    /\ mShaders' = [p \in Programs |->
                        IF p \in progs THEN DetachShadersSlots(mShaders[p]) ELSE mShaders[p]]
    /\ mPurgeListShaderPrograms' = mPurgeListShaderPrograms \ progs
    /\ shRef' = refs
    /\ shState' = [s \in Shaders |-> IF s \in shs THEN "freed" ELSE shState[s]]
    /\ shFreed' = [s \in Shaders |-> IF s \in shs THEN shFreed[s] + 1 ELSE shFreed[s]]
    /\ shSurvived' = [s \in Shaders |-> shSurvived[s] \/ s \in mPurgeListShaders \ shs]
    /\ mPurgeListShaders' = mPurgeListShaders \ shs
    /\ mShadingObjectPool' = pool2
    /\ rbState' = [r \in DOMAIN rbState |-> IF r \in rbs THEN "freed" ELSE rbState[r]]
    /\ mPurgeListRenderbuffers' = mPurgeListRenderbuffers \ rbs
    /\ UNCHANGED <<shType, shCompiled, shMark, shSpv, prRef, prMark, mShadingObjectCount,
                   boRef, texRef, rbRef, progVars, ctxVars>>


(***************************************************************************)
(* Buffers, textures and renderbuffers: plain reference-counted objects    *)
(***************************************************************************)
ObjectKinds == {"buffer", "texture", "renderbuffer"}

\* the pool of one kind: what is allocated, the reference counts, the purge list
ObjectsOf(kind) ==
    CASE kind = "buffer" -> [state |-> boState, ref |-> boRef, purge |-> mPurgeListBufferObject]
      [] kind = "texture" -> [state |-> texState, ref |-> texRef, purge |-> mPurgeListTexture]
      [] kind = "renderbuffer" -> [state |-> rbState, ref |-> rbRef, purge |-> mPurgeListRenderbuffers]

\* one kind's reference counts and purge list change, the other kinds stay
SetObjects(kind, ref, purge) ==
    /\ boRef' = IF kind = "buffer" THEN ref ELSE boRef
    /\ mPurgeListBufferObject' = IF kind = "buffer" THEN purge ELSE mPurgeListBufferObject
    /\ texRef' = IF kind = "texture" THEN ref ELSE texRef
    /\ mPurgeListTexture' = IF kind = "texture" THEN purge ELSE mPurgeListTexture
    /\ rbRef' = IF kind = "renderbuffer" THEN ref ELSE rbRef
    /\ mPurgeListRenderbuffers' = IF kind = "renderbuffer" THEN purge ELSE mPurgeListRenderbuffers
    /\ UNCHANGED <<boState, texState, rbState, shaderVars, programVars, poolVars,
                   mPurgeListShaders, mPurgeListShaderPrograms, progVars, ctxVars>>

\* refObject::Bind of an object something starts to use
BindObject(kind, o) ==
    /\ ObjectsOf(kind).state[o] = "live"
    /\ ObjectsOf(kind).ref[o] < MaxObjectRef
    /\ SetObjects(kind, [ObjectsOf(kind).ref EXCEPT ![o] = @ + 1], ObjectsOf(kind).purge)

\* refObject::Unbind of an object something stops using
UnbindObject(kind, o) ==
    /\ ObjectsOf(kind).state[o] = "live"
    /\ ObjectsOf(kind).ref[o] > 0
    /\ SetObjects(kind, [ObjectsOf(kind).ref EXCEPT ![o] = Unbind(@)], ObjectsOf(kind).purge)

\* a delete request puts the object on the purge list of its kind
AddToPurgeList(kind, o) ==
    /\ ObjectsOf(kind).state[o] = "live"
    /\ o \notin ObjectsOf(kind).purge
    /\ SetObjects(kind, ObjectsOf(kind).ref, ObjectsOf(kind).purge \cup {o})
(***************************************************************************)
(* Reflection data of the external compiler.  Every uniform is its own     *)
(* uniform block, opaque when it is a sampler.                             *)
(***************************************************************************)
Attributes(n) == [i \in 1..n |-> [location |-> i - 1, occupied |-> 1]]

Uniform(type, i) == [type |-> type, arraySize |-> 1, blockIndex |-> i]

Block(type, i) == [binding |-> i - 1, opaque |-> type # GL_FLOAT]

Reflection(nAttributes, types) ==
    [attributes |-> Attributes(nAttributes),
     uniforms |-> [i \in 1..Len(types) |-> Uniform(types[i], i)],
     blocks |-> [i \in 1..Len(types) |-> Block(types[i], i)]]

\* the reflections the compiler may come up with
Reflections ==
    { Reflection(0, <<>>),
      Reflection(1, <<GL_FLOAT>>),
      Reflection(2, <<GL_FLOAT, GL_SAMPLER_2D>>),
      Reflection(GLOVE_MAX_VERTEX_ATTRIBS + 1, <<GL_FLOAT>>),
      Reflection(1, [i \in 1..(GLOVE_MAX_FRAGMENT_UNIFORM_VECTORS + 1) |-> GL_FLOAT]) }

EmptyInterface ==
    [attributes |-> <<>>, uniforms |-> <<>>, blocks |-> <<>>, clientData |-> <<>>,
     bufferData |-> <<>>, reflectionSize |-> 0, stamp |-> 0]

RECURSIVE Flatten(_)
Flatten(seqs) == IF seqs = <<>> THEN <<>> ELSE Head(seqs) \o Flatten(Tail(seqs))

(***************************************************************************)
(* The compiler's serialized reflection, in 32-bit words: for the          *)
(* attributes, the uniforms and the uniform blocks in turn, a count and    *)
(* then the fields of each entry.                                          *)
(***************************************************************************)
TypeCode(type) ==
    CASE type = GL_FLOAT -> 1
      [] type = GL_SAMPLER_2D -> 2
      [] type = GL_SAMPLER_CUBE -> 3

TypeOf(code) == CHOOSE type \in {GL_FLOAT, GL_SAMPLER_2D, GL_SAMPLER_CUBE} : TypeCode(type) = code

SerializeReflection(r) ==
    <<Len(r.attributes)>>
        \o Flatten([i \in 1..Len(r.attributes) |->
                       <<r.attributes[i].location, r.attributes[i].occupied>>])
        \o <<Len(r.uniforms)>>
        \o Flatten([i \in 1..Len(r.uniforms) |->
                       <<TypeCode(r.uniforms[i].type), r.uniforms[i].arraySize,
                         r.uniforms[i].blockIndex>>])
        \o <<Len(r.blocks)>>
        \o Flatten([i \in 1..Len(r.blocks) |->
                       <<r.blocks[i].binding, IF r.blocks[i].opaque THEN 1 ELSE 0>>])

\* the reflection read back from the words, and the bytes it took
DeserializeReflection(words) ==
    LET nA == words[1]
        uAt == 1 + 2 * nA
        nU == words[uAt + 1]
        bAt == uAt + 1 + 3 * nU
        nB == words[bAt + 1]
    IN [reflection |->
            [attributes |-> [i \in 1..nA |->
                                [location |-> words[2 * i], occupied |-> words[2 * i + 1]]],
             uniforms |-> [i \in 1..nU |->
                                [type |-> TypeOf(words[uAt + 3 * i - 1]),
                                 arraySize |-> words[uAt + 3 * i],
                                 blockIndex |-> words[uAt + 3 * i + 1]]],
             blocks |-> [i \in 1..nB |->
                                [binding |-> words[bAt + 2 * i],
                                 opaque |-> words[bAt + 2 * i + 1] = 1]]],
        size |-> 4 * (bAt + 1 + 2 * nB)]

\* bytes of the serialized reflection
ReflectionBytes(r) == 4 * Len(SerializeReflection(r))

(***************************************************************************)
(* ShaderProgram: construction                                             *)
(***************************************************************************)
NoPipelineCache == [handle |-> VK_NULL_HANDLE, data |-> <<>>]

\* ShaderProgram::ShaderProgram and SetPipelineVertexInputStateInfo
NewProgram ==
    [mLinked |-> FALSE, mIsPrecompiled |-> FALSE, mValidated |-> FALSE,
     mMinDepthRange |-> 1, mMaxDepthRange |-> 0,
     mVkDescSetLayout |-> VK_NULL_HANDLE, mVkDescPool |-> VK_NULL_HANDLE,
     mVkDescSet |-> VK_NULL_HANDLE, mVkPipelineLayout |-> VK_NULL_HANDLE,
     mUpdateDescriptorSets |-> FALSE, mUpdateDescriptorData |-> FALSE,
     mShaderSPVsize |-> <<0, 0>>, mShaderSPVdata |-> <<NullPtr, NullPtr>>,
     mPipelineCache |-> NoPipelineCache,
     mActiveVertexVkBuffersCount |-> 0,
     mActiveVertexVkBuffers |-> [b \in 1..GLOVE_MAX_VERTEX_ATTRIBS |-> VK_NULL_HANDLE],
     vertexBindingDescriptionCount |-> 0, vertexAttributeDescriptionCount |-> 0,
     mVkVertexInputBinding |-> <<>>, mVkVertexInputAttribute |-> <<>>,
     mActiveIndexVkBuffer |-> VK_NULL_HANDLE, mExplicitIbo |-> NullPtr,
     sri |-> EmptyInterface]

(***************************************************************************)
(* The steps of an operation work on a record st of the program's members  *)
(* (st.p), the native objects (st.objs) and the calls made so far          *)
(* (st.calls).                                                             *)
(***************************************************************************)
Called(st, name) == [st EXCEPT !.calls = Append(@, name)]

\* a vkDestroy... / vkFree... call on handle h
Destroy(st, name, h) ==
    [Called(st, name) EXCEPT !.objs[h].live = FALSE]

\* a vkCreate... / vkAllocate... call; the new handle is Len(result.objs)
Create(st, name, kind) ==
    [Called(st, name) EXCEPT !.objs = Append(@, [kind |-> kind, live |-> TRUE])]

\* the descriptor set and pool go first, the two layouts last
ReleaseVkObjectsSetFirst(st) ==
    LET s1 == IF st.p.mVkDescSet # VK_NULL_HANDLE
              THEN [Destroy(st, "vkFreeDescriptorSets", st.p.mVkDescSet)
                        EXCEPT !.p.mVkDescSet = VK_NULL_HANDLE]
              ELSE st
        s2 == IF s1.p.mVkDescPool # VK_NULL_HANDLE
              THEN [Destroy(s1, "vkDestroyDescriptorPool", s1.p.mVkDescPool)
                        EXCEPT !.p.mVkDescPool = VK_NULL_HANDLE]
              ELSE s1
        s3 == IF s2.p.mVkDescSetLayout # VK_NULL_HANDLE
              THEN [Destroy(s2, "vkDestroyDescriptorSetLayout", s2.p.mVkDescSetLayout)
                        EXCEPT !.p.mVkDescSetLayout = VK_NULL_HANDLE]
              ELSE s2
        s4 == IF s3.p.mVkPipelineLayout # VK_NULL_HANDLE
              THEN [Destroy(s3, "vkDestroyPipelineLayout", s3.p.mVkPipelineLayout)
                        EXCEPT !.p.mVkPipelineLayout = VK_NULL_HANDLE]
              ELSE s3
    IN [s4 EXCEPT !.p.mShaderSPVsize = <<0, 0>>,
                  !.p.mShaderSPVdata = <<NullPtr, NullPtr>>,
                  !.p.mPipelineCache = NoPipelineCache]

\* the descriptor set is freed and its handle kept
ReleaseVkObjectsKeepsSet(st) ==
    LET s1 == IF st.p.mVkPipelineLayout # VK_NULL_HANDLE
              THEN [Destroy(st, "vkDestroyPipelineLayout", st.p.mVkPipelineLayout)
                        EXCEPT !.p.mVkPipelineLayout = VK_NULL_HANDLE]
              ELSE st
        s2 == IF s1.p.mVkDescSetLayout # VK_NULL_HANDLE
              THEN [Destroy(s1, "vkDestroyDescriptorSetLayout", s1.p.mVkDescSetLayout)
                        EXCEPT !.p.mVkDescSetLayout = VK_NULL_HANDLE]
              ELSE s1
        s3 == IF s2.p.mVkDescSet # VK_NULL_HANDLE
              THEN Destroy(s2, "vkFreeDescriptorSets", s2.p.mVkDescSet)
              ELSE s2
        s4 == IF s3.p.mVkDescPool # VK_NULL_HANDLE
              THEN [Destroy(s3, "vkDestroyDescriptorPool", s3.p.mVkDescPool)
                        EXCEPT !.p.mVkDescPool = VK_NULL_HANDLE]
              ELSE s3
    IN [s4 EXCEPT !.p.mShaderSPVsize = <<0, 0>>,
                  !.p.mShaderSPVdata = <<NullPtr, NullPtr>>,
                  !.p.mPipelineCache = NoPipelineCache]

ReleaseVkObjects(st) ==
    LET s1 == IF st.p.mVkPipelineLayout # VK_NULL_HANDLE
              THEN [Destroy(st, "vkDestroyPipelineLayout", st.p.mVkPipelineLayout)
                        EXCEPT !.p.mVkPipelineLayout = VK_NULL_HANDLE]
              ELSE st
        s2 == IF s1.p.mVkDescSetLayout # VK_NULL_HANDLE
              THEN [Destroy(s1, "vkDestroyDescriptorSetLayout", s1.p.mVkDescSetLayout)
                        EXCEPT !.p.mVkDescSetLayout = VK_NULL_HANDLE]
              ELSE s1
        s3 == IF s2.p.mVkDescSet # VK_NULL_HANDLE
              THEN [Destroy(s2, "vkFreeDescriptorSets", s2.p.mVkDescSet)
                        EXCEPT !.p.mVkDescSet = VK_NULL_HANDLE]
              ELSE s2
        s4 == IF s3.p.mVkDescPool # VK_NULL_HANDLE
              THEN [Destroy(s3, "vkDestroyDescriptorPool", s3.p.mVkDescPool)
                        EXCEPT !.p.mVkDescPool = VK_NULL_HANDLE]
              ELSE s3
    IN [s4 EXCEPT !.p.mShaderSPVsize = <<0, 0>>,
                  !.p.mShaderSPVdata = <<NullPtr, NullPtr>>,
                  !.p.mPipelineCache = NoPipelineCache]

\* the native creation calls succeed (a failure ends in assert(0))
CreateDescriptorSetLayout(st, nLiveUniformBlocks) ==
    LET s1 == Create(st, "vkCreateDescriptorSetLayout", "layout")
        s2 == [s1 EXCEPT !.p.mVkDescSetLayout = Len(s1.objs)]
        s3 == Create(s2, "vkCreatePipelineLayout", "pipelineLayout")
    IN [s3 EXCEPT !.p.mVkPipelineLayout = Len(s3.objs)]

CreateDescriptorPool(st, nLiveUniformBlocks) ==
    LET s1 == Create(st, "vkCreateDescriptorPool", "pool")
    IN [s1 EXCEPT !.p.mVkDescPool = Len(s1.objs)]

CreateDescriptorSet(st) ==
    LET s1 == Create(st, "vkAllocateDescriptorSets", "set")
    IN [s1 EXCEPT !.p.mVkDescSet = Len(s1.objs)]

\* mutant: the old objects are not released before the new ones are created
AllocateVkDescriptoSetNoRelease(st) ==
    LET n == Len(st.p.sri.blocks)
        s2 == CreateDescriptorSetLayout(st, n)
    IN IF n = 0 THEN s2 ELSE CreateDescriptorSet(CreateDescriptorPool(s2, n))

\* the pool and the set are created whatever the number of blocks
AllocateVkDescriptoSetAlwaysPool(st) ==
    LET n == Len(st.p.sri.blocks)
        s1 == ReleaseVkObjects(st)
        s2 == CreateDescriptorSetLayout(s1, n)
    IN CreateDescriptorSet(CreateDescriptorPool(s2, n))

AllocateVkDescriptoSet(st) ==
    LET n == Len(st.p.sri.blocks)
        s1 == ReleaseVkObjects(st)
        s2 == CreateDescriptorSetLayout(s1, n)
    IN IF n = 0 THEN s2 ELSE CreateDescriptorSet(CreateDescriptorPool(s2, n))

ResetVulkanVertexInput(st) ==
    [st EXCEPT !.p.vertexAttributeDescriptionCount = 0,
               !.p.vertexBindingDescriptionCount = 0,
               !.p.mActiveVertexVkBuffersCount = 0,
               !.p.mVkVertexInputBinding = <<>>,
               !.p.mVkVertexInputAttribute = <<>>,
               !.p.mActiveVertexVkBuffers =
                    [b \in 1..GLOVE_MAX_VERTEX_ATTRIBS |-> VK_NULL_HANDLE]]

\* the reflection pre-pass: the attribute interface and the reflection size
UpdateAttributeInterface(st, r) ==
    [st EXCEPT !.p.sri.attributes = r.attributes,
               !.p.sri.reflectionSize = ReflectionBytes(r)]

\* CreateInterface, AllocateUniformClientData, AllocateUniformBufferObjects:
\* the interface is rebuilt from the compiler's reflection, with fresh shadow
\* storage; stamp is the first native handle this build creates
CreateInterface(st, r) ==
    [st EXCEPT !.p.sri = [attributes |-> r.attributes, uniforms |-> r.uniforms,
                          blocks |-> r.blocks,
                          clientData |-> [i \in 1..Len(r.uniforms) |-> 0],
                          bufferData |-> [i \in 1..Len(r.uniforms) |-> 0],
                          reflectionSize |-> ReflectionBytes(r),
                          stamp |-> Len(st.objs) + 1]]

\* the dirty flags are left as they are
BuildShaderResourceInterfaceUnmarked(st, r) == AllocateVkDescriptoSet(CreateInterface(st, r))

BuildShaderResourceInterface(st, r) ==
    LET s1 == AllocateVkDescriptoSet(CreateInterface(st, r))
    IN [s1 EXCEPT !.p.mUpdateDescriptorSets = TRUE, !.p.mUpdateDescriptorData = TRUE]

GetNumberOfActiveUniforms(p) == Len(p.sri.uniforms)
GetNumberOfActiveAttributes(p) == Len(p.sri.attributes)

(***************************************************************************)
(* ShaderProgram::ValidateProgram and ShaderProgram::LinkProgram           *)
(***************************************************************************)
\* mutant: the compiled flags are not tested
StagesReadyUnchecked(slots) == slots[1] # NullPtr /\ slots[2] # NullPtr

\* the test ValidateProgram makes before it calls the compiler
StagesReady(slots) ==
    ~( (slots[1] = NullPtr \/ slots[2] = NullPtr)
       \/ (~shCompiled[slots[1]] \/ ~shCompiled[slots[2]]) )

\* mutant: the attribute count is not tested
ExceedsLimitsUniformsOnly(p) ==
    \/ GetNumberOfActiveUniforms(p) > GLOVE_MAX_VERTEX_UNIFORM_VECTORS
    \/ GetNumberOfActiveUniforms(p) > GLOVE_MAX_FRAGMENT_UNIFORM_VECTORS

ExceedsLimits(p) ==
    \/ GetNumberOfActiveUniforms(p) > GLOVE_MAX_VERTEX_UNIFORM_VECTORS
    \/ GetNumberOfActiveUniforms(p) > GLOVE_MAX_FRAGMENT_UNIFORM_VECTORS
    \/ GetNumberOfActiveAttributes(p) > GLOVE_MAX_VERTEX_ATTRIBS

\* what the external compiler answers during one LinkProgram call: program
\* validation, the preprocessing of each stage, the link, and the reflection
\* data it holds; an answer that a failed earlier step leaves unasked is FALSE
CompilerAnswers ==
    {c \in [valid : BOOLEAN, vertex : BOOLEAN, fragment : BOOLEAN, link : BOOLEAN,
            reflection : Reflections] :
        /\ c.vertex => c.valid
        /\ c.fragment => c.vertex
        /\ c.link => c.fragment}

AllSucceed(c) == c.valid /\ c.vertex /\ c.fragment /\ c.link

\* mutant: the answer of the external link is not tested
LinkProgramResultIgnoresLink(st0, slots, c) ==
    IF ~StagesReady(slots)
    THEN [st0 EXCEPT !.p.mLinked = FALSE, !.value = FALSE]
    ELSE LET s1 == Called(st0, "ValidateProgram") IN
         IF ~c.valid
         THEN [s1 EXCEPT !.p.mLinked = FALSE, !.value = FALSE]
         ELSE LET s2 == ResetVulkanVertexInput(Called(s1, "ResetVulkanVertexInput"))
                  s3 == UpdateAttributeInterface(
                            Called(Called(s2, "PrepareReflection"), "UpdateAttributeInterface"),
                            c.reflection)
                  s4 == Called(s3, "PreprocessShader(VERTEX)")
                  s5 == IF c.vertex THEN Called(s4, "PreprocessShader(FRAGMENT)") ELSE s4
              IN
              IF ~(c.vertex /\ c.fragment)
              THEN [s5 EXCEPT !.p.mLinked = FALSE, !.value = FALSE]
              ELSE LET s7 == Called(BuildShaderResourceInterface(
                                        Called(Called(s5, "LinkProgram"),
                                               "BuildShaderResourceInterface"),
                                        c.reflection), "GetNumberOfActiveUniforms") IN
                   IF ExceedsLimits(s7.p)
                   THEN [s7 EXCEPT !.p.mLinked = FALSE, !.value = FALSE]
                   ELSE [s7 EXCEPT !.p.mLinked = TRUE, !.value = TRUE]

\* mutant: the fragment stage is preprocessed whatever the vertex stage gave
LinkProgramResultBothStages(st0, slots, c) ==
    IF ~StagesReady(slots)
    THEN [st0 EXCEPT !.p.mLinked = FALSE, !.value = FALSE]
    ELSE LET s1 == Called(st0, "ValidateProgram") IN
         IF ~c.valid
         THEN [s1 EXCEPT !.p.mLinked = FALSE, !.value = FALSE]
         ELSE LET s2 == ResetVulkanVertexInput(Called(s1, "ResetVulkanVertexInput"))
                  s3 == UpdateAttributeInterface(
                            Called(Called(s2, "PrepareReflection"), "UpdateAttributeInterface"),
                            c.reflection)
                  s4 == Called(s3, "PreprocessShader(VERTEX)")
                  s5 == Called(s4, "PreprocessShader(FRAGMENT)")
              IN
              IF ~(c.vertex /\ c.fragment)
              THEN [s5 EXCEPT !.p.mLinked = FALSE, !.value = FALSE]
              ELSE LET s6 == Called(s5, "LinkProgram") IN
                   IF ~c.link
                   THEN [s6 EXCEPT !.p.mLinked = FALSE, !.value = FALSE]
                   ELSE LET s7 == Called(BuildShaderResourceInterface(
                                             Called(s6, "BuildShaderResourceInterface"),
                                             c.reflection), "GetNumberOfActiveUniforms") IN
                        IF ExceedsLimits(s7.p)
                        THEN [s7 EXCEPT !.p.mLinked = FALSE, !.value = FALSE]
                        ELSE [s7 EXCEPT !.p.mLinked = TRUE, !.value = TRUE]

\* mutant: the limit check returns failure and leaves the flag the link set
LinkProgramResultLimitKeepsFlag(st0, slots, c) ==
    IF ~StagesReady(slots)
    THEN [st0 EXCEPT !.p.mLinked = FALSE, !.value = FALSE]
    ELSE LET s1 == Called(st0, "ValidateProgram") IN
         IF ~c.valid
         THEN [s1 EXCEPT !.p.mLinked = FALSE, !.value = FALSE]
         ELSE LET s2 == ResetVulkanVertexInput(Called(s1, "ResetVulkanVertexInput"))
                  s3 == UpdateAttributeInterface(
                            Called(Called(s2, "PrepareReflection"), "UpdateAttributeInterface"),
                            c.reflection)
                  s4 == Called(s3, "PreprocessShader(VERTEX)")
                  s5 == IF c.vertex THEN Called(s4, "PreprocessShader(FRAGMENT)") ELSE s4
              IN
              IF ~(c.vertex /\ c.fragment)
              THEN [s5 EXCEPT !.p.mLinked = FALSE, !.value = FALSE]
              ELSE LET s6 == Called(s5, "LinkProgram") IN
                   IF ~c.link
                   THEN [s6 EXCEPT !.p.mLinked = FALSE, !.value = FALSE]
                   ELSE LET s7 == Called(BuildShaderResourceInterface(
                                             Called(s6, "BuildShaderResourceInterface"),
                                             c.reflection), "GetNumberOfActiveUniforms") IN
                        IF ExceedsLimits(s7.p)
                        THEN [s7 EXCEPT !.p.mLinked = TRUE, !.value = FALSE]
                        ELSE [s7 EXCEPT !.p.mLinked = TRUE, !.value = TRUE]

\* the state LinkProgram leaves and the value it returns (st.value)
LinkProgramResult(st0, slots, c) ==
    IF ~StagesReady(slots)
    THEN [st0 EXCEPT !.p.mLinked = FALSE, !.value = FALSE]
    ELSE LET s1 == Called(st0, "ValidateProgram") IN
         IF ~c.valid
         THEN [s1 EXCEPT !.p.mLinked = FALSE, !.value = FALSE]
         ELSE LET s2 == ResetVulkanVertexInput(Called(s1, "ResetVulkanVertexInput"))
                  s3 == UpdateAttributeInterface(
                            Called(Called(s2, "PrepareReflection"), "UpdateAttributeInterface"),
                            c.reflection)
                  s4 == Called(s3, "PreprocessShader(VERTEX)")
                  s5 == IF c.vertex THEN Called(s4, "PreprocessShader(FRAGMENT)") ELSE s4
              IN
              IF ~(c.vertex /\ c.fragment)
              THEN [s5 EXCEPT !.p.mLinked = FALSE, !.value = FALSE]
              ELSE LET s6 == Called(s5, "LinkProgram") IN
                   IF ~c.link
                   THEN [s6 EXCEPT !.p.mLinked = FALSE, !.value = FALSE]
                   ELSE LET s7 == Called(BuildShaderResourceInterface(
                                             Called(s6, "BuildShaderResourceInterface"),
                                             c.reflection), "GetNumberOfActiveUniforms") IN
                        IF ExceedsLimits(s7.p)
                        THEN [s7 EXCEPT !.p.mLinked = FALSE, !.value = FALSE]
                        ELSE [s7 EXCEPT !.p.mLinked = TRUE, !.value = TRUE]

\* a new program right after its first LinkProgram, when the stages are ready,
\* the compiler accepts everything and holds reflection r
LinkedProgram(r) ==
    LinkProgramResult([p |-> NewProgram, objs |-> <<>>, calls |-> <<>>, value |-> FALSE],
                      <<1, 2>>,
                      [valid |-> TRUE, vertex |-> TRUE, fragment |-> TRUE, link |-> TRUE,
                       reflection |-> r])

\* the record the steps of an operation start from
Start == [p |-> program, objs |-> vkObjects, calls |-> <<>>, value |-> FALSE]

\* an operation of the program under study ends: its members, the native
\* objects, the calls it made and what it returned
Finish(op, st) ==
    /\ program' = st.p
    /\ vkObjects' = st.objs
    /\ calls' = st.calls
    /\ ret' = [op |-> op, value |-> st.value]

LinkProgram(c) ==
    /\ prState[1] = "live"
    /\ Len(vkObjects) + 4 <= MaxVkObjects
    /\ Finish("LinkProgram", LinkProgramResult(Start, mShaders[1], c))
    /\ compilerReflection' =
            IF StagesReady(mShaders[1]) /\ c.valid THEN c.reflection ELSE compilerReflection
    /\ UNCHANGED <<rmVars, ctxVars>>

\* glCompileShader: the compiler accepts or rejects the shader's source
CompileShader(s, ok) ==
    /\ shState[s] = "live"
    /\ shCompiled[s] # ok
    /\ shCompiled' = [shCompiled EXCEPT ![s] = ok]
    /\ UNCHANGED <<shState, shType, shRef, shMark, shSpv, shFreed, shSurvived, programVars,
                   poolVars, purgeVars, objectVars, progVars, ctxVars>>

(***************************************************************************)
(* Vertex-input assembly: ShaderProgram::PrepareVertexAttribBufferObjects  *)
(***************************************************************************)
\* the slots of the generic vertex attribute table
Locations == 0..(GLOVE_MAX_VERTEX_ATTRIBS - 1)

\* the strides a client gives to glVertexAttribPointer
Strides == {12, 16}

\* handles of the vertex buffers the client created
VertexBuffers == 1..NumVertexBuffers

\* handles a buffer created during a draw may get
FreshBuffers == (NumVertexBuffers + 1)..(NumVertexBuffers + GLOVE_MAX_VERTEX_ATTRIBS)

\* glVertexAttribPointer with a bound array buffer: the slot's buffer and stride
VertexAttribPointer(location, buffer, stride) ==
    /\ genericVertAttribs[location] # [buffer |-> buffer, stride |-> stride]
    /\ genericVertAttribs' =
            [genericVertAttribs EXCEPT ![location] = [buffer |-> buffer, stride |-> stride]]
    /\ calls' = <<>>
    /\ ret' = [op |-> "VertexAttribPointer", value |-> TRUE]
    /\ UNCHANGED <<rmVars, indexVars, binaryVars, program, compilerReflection, vkObjects, modeLineLoop, textureVars,
                   descriptorVars>>

\* the locations one live attribute occupies
LocationsOf(attribute) == [j \in 1..attribute.occupied |-> attribute.location + j - 1]

RECURSIVE AllLocations(_)
AllLocations(attributes) ==
    IF attributes = <<>> THEN <<>>
    ELSE LocationsOf(Head(attributes)) \o AllLocations(Tail(attributes))

\* "if location is currently used then ommit it"
RECURSIVE SkipUsed(_, _)
SkipUsed(locations, locationUsed) ==
    IF locations = <<>> THEN <<>>
    ELSE IF Head(locations) \in locationUsed
         THEN SkipUsed(Tail(locations), locationUsed)
         ELSE <<Head(locations)>>
                \o SkipUsed(Tail(locations), locationUsed \cup {Head(locations)})

\* the locations the two loops of the assembly visit, in the order of the visit
VisitedLocations(p) == SkipUsed(AllLocations(p.sri.attributes), {})

\* the stride is compared first
PairLessStrideFirst(a, b) == a[2] < b[2] \/ (a[2] = b[2] /\ a[1] < b[1])

\* the order of std::map over std::pair<VkBuffer, int32_t>
PairLess(a, b) == a[1] < b[1] \/ (a[1] = b[1] /\ a[2] < b[2])

\* mutant: the map is keyed by the buffer alone
BufferStridePairBufferOnly(bo, stride) == <<bo, 0>>

\* the key of unique_buffer_stride_map
BufferStridePair(bo, stride) == <<bo, stride>>

\* the mode of the draw is not looked at
CopyPathEveryMode(p, lineLoop) == p.mActiveIndexVkBuffer = VK_NULL_HANDLE

\* the line-loop branch of the loop is taken: every visited location gets a
\* buffer of its own holding the data and one more vertex
CopyPath(p, lineLoop) == lineLoop /\ p.mActiveIndexVkBuffer = VK_NULL_HANDLE

\* UpdateVertexAttribProperties.  gvas is the attribute table, updatedVBO the
\* locations whose UpdateVertexAttribute reports a change, fresh the handles
\* of the buffers the line-loop branch creates, by position of the visit.
UpdateVertexAttribProperties(st, gvas, lineLoop, updatedVertexAttrib, updatedVBO, fresh) ==
    LET locs == VisitedLocations(st.p)
        copy == CopyPath(st.p, lineLoop)
        bo(k) == IF copy THEN fresh[k] ELSE gvas[locs[k]].buffer
        pair(k) == BufferStridePair(bo(k), gvas[locs[k]].stride)
        unique_buffer_stride_map == {pair(k) : k \in 1..Len(locs)}
        cached == [k \in 1..(IF copy THEN Len(locs) ELSE 0) |-> "CacheVBO"]
        updated == \/ updatedVertexAttrib
                   \/ \E k \in 1..Len(locs) : locs[k] \in updatedVBO
                   \/ copy /\ Len(locs) > 0
        current_binding(key) ==
            Cardinality({x \in unique_buffer_stride_map : PairLess(x, key)})
        cleared == [b \in 1..GLOVE_MAX_VERTEX_ATTRIBS |->
                        IF b <= st.p.mActiveVertexVkBuffersCount THEN VK_NULL_HANDLE
                        ELSE st.p.mActiveVertexVkBuffers[b]]
        buffers == [b \in 1..GLOVE_MAX_VERTEX_ATTRIBS |->
                        IF \E key \in unique_buffer_stride_map : current_binding(key) = b - 1
                        THEN (CHOOSE key \in unique_buffer_stride_map :
                                    current_binding(key) = b - 1)[1]
                        ELSE cleared[b]]
        s1 == [st EXCEPT !.calls = @ \o cached]
    IN IF ~updated
       THEN [s1 EXCEPT !.value = FALSE, !.vboLocationBindings = << >>]
       ELSE [s1 EXCEPT !.value = TRUE,
                       !.p.mActiveVertexVkBuffers = buffers,
                       !.p.mActiveVertexVkBuffersCount = Cardinality(unique_buffer_stride_map),
                       !.vboLocationBindings =
                            [k \in 1..Len(locs) |-> current_binding(pair(k))]]

\* GenerateVertexInputProperties: st.vboLocationBindings[k] is the binding of
\* the k-th visited location.  Of the two description arrays the model keeps
\* the entries below the two counts, which are the ones a pipeline reads and
\* which every call writes anew.
GenerateVertexInputProperties(st, gvas) ==
    LET locs == VisitedLocations(st.p)
        binding(k) == st.vboLocationBindings[k]
        \* the last visited location of a binding writes its stride
        lastOf(b) == CHOOSE k \in 1..Len(locs) :
                        /\ binding(k) = b
                        /\ \A m \in (k + 1)..Len(locs) : binding(m) # b
        bindings == [b \in 1..st.p.mActiveVertexVkBuffersCount |->
                        [binding |-> b - 1, stride |-> gvas[locs[lastOf(b - 1)]].stride]]
        attributes == [c \in 1..Len(locs) |->
                        [binding |-> binding(c), location |-> locs[c]]]
    IN [st EXCEPT !.p.mVkVertexInputBinding = bindings,
                  !.p.mVkVertexInputAttribute = attributes,
                  !.p.vertexBindingDescriptionCount = st.p.mActiveVertexVkBuffersCount,
                  !.p.vertexAttributeDescriptionCount = Len(locs)]

PrepareVertexAttribBufferObjectsResult(st, gvas, lineLoop, updatedVertexAttrib, updatedVBO, fresh) ==
    LET s0 == [p |-> st.p, objs |-> st.objs, calls |-> st.calls, value |-> FALSE,
               vboLocationBindings |-> << >>]
        s1 == UpdateVertexAttribProperties(s0, gvas, lineLoop, updatedVertexAttrib,
                                           updatedVBO, fresh)
        s2 == IF s1.value THEN GenerateVertexInputProperties(s1, gvas) ELSE s1
    IN [p |-> s2.p, objs |-> s2.objs, calls |-> s2.calls, value |-> s2.value]

\* a draw call in the given mode reaches PrepareVertexAttribBufferObjects
PrepareVertexAttribBufferObjects(lineLoop, updatedVertexAttrib, updatedVBO, fresh) ==
    /\ program.mLinked
    /\ modeLineLoop' = lineLoop
    /\ Finish("PrepareVertexAttribBufferObjects",
              PrepareVertexAttribBufferObjectsResult(Start, genericVertAttribs, lineLoop,
                                                     updatedVertexAttrib, updatedVBO, fresh))
    /\ UNCHANGED <<rmVars, indexVars, binaryVars, compilerReflection, genericVertAttribs, textureVars, descriptorVars>>


(***************************************************************************)
(* Index buffer preparation.  Buffers are sequences of bytes, so that the  *)
(* element width each step reads or writes is part of the model.           *)
(***************************************************************************)
IndexTypes == {GL_UNSIGNED_BYTE, GL_UNSIGNED_SHORT, GL_UNSIGNED_INT}

\* the width of one index in the memory the client filled
ClientSize(type) ==
    CASE type = GL_UNSIGNED_BYTE -> 1
      [] type = GL_UNSIGNED_SHORT -> 2
      [] type = GL_UNSIGNED_INT -> 4

\* type == GL_UNSIGNED_INT ? sizeof(GLuint) : sizeof(GLushort)
ElementSize(type) == IF type = GL_UNSIGNED_INT THEN 4 ELSE 2

\* the n bytes of v, least significant first
RECURSIVE Bytes(_, _)
Bytes(v, n) == IF n = 0 THEN <<>> ELSE <<v % 256>> \o Bytes(v \div 256, n - 1)

RECURSIVE Encode(_, _)
Encode(values, size) ==
    IF values = <<>> THEN <<>>
    ELSE Bytes(Head(values), size) \o Encode(Tail(values), size)

\* srcData[i] of a uint16_t array laid over the bytes
U16(bytes, i) == bytes[2 * i + 1] + 256 * bytes[2 * i + 2]

\* the values a client puts in an index array of each type
IndexValues(type) ==
    CASE type = GL_UNSIGNED_BYTE -> {1, 255}
      [] type = GL_UNSIGNED_SHORT -> {1, 300}
      [] type = GL_UNSIGNED_INT -> {1, 65537}

\* a buffer object: its address, its native buffer and its memory
NoBuffer == [handle |-> NullPtr, vk |-> VK_NULL_HANDLE, data |-> <<>>, allocated |-> FALSE]

\* the native buffer of the index buffer object the client bound
BoundIndexVkBuffer == NumVertexBuffers + GLOVE_MAX_VERTEX_ATTRIBS + 1
ExplicitVkBuffer(h) == BoundIndexVkBuffer + h
\* the address of the client's index buffer object
BoundIbo == NumIndexBuffers + 1

\* the address new IndexBufferObject returns: none of the buffers still alive
NewIndexBufferObject(current) == (current % NumIndexBuffers) + 1

\* the byte in front of the indices when they start at an offset
Padding == 7
BoundBuffer(offset, memory) ==
    [handle |-> BoundIbo, vk |-> BoundIndexVkBuffer,
     data |-> [i \in 1..offset |-> Padding] \o memory, allocated |-> TRUE]

\* BufferObject::GetData into a destination that was not initialised: what
\* lies outside the buffer's memory is not written
GetData(buf, size, offset, garbage) ==
    [i \in 1..size |-> IF buf.allocated /\ offset + i <= Len(buf.data)
                       THEN buf.data[offset + i] ELSE garbage]

\* ConvertBuffer<uint8_t, uint16_t>
ConvertBuffer(srcData, elementCount) ==
    Encode([i \in 1..elementCount |-> srcData[i]], 2)

\* what the program keeps of its explicit index buffer: the object, not its bytes
Object(buf) ==
    [handle |-> buf.handle, vk |-> buf.vk, allocated |-> buf.allocated, size |-> Len(buf.data)]

\* the record of the last PrepareIndexBufferObject: its arguments, whether a
\* conversion or allocation step of it failed, and what it handed back
NoIndexDraw ==
    [type |-> GL_NONE, indexCount |-> 0, values |-> <<>>, bound |-> FALSE, offset |-> 0,
     lineLoop |-> FALSE, failed |-> FALSE, validatedBuffer |-> FALSE,
     written |-> FALSE, firstIndex |-> 0, maxIndex |-> 0,
     ibo |-> NoBuffer, cached |-> <<>>, crashed |-> FALSE]

StartIndex(ibo) ==
    [ibo |-> ibo, explicit |-> explicitIbo, offset |-> 0, cached |-> <<>>,
     written |-> FALSE, firstIndex |-> 0, maxIndex |-> 0, crashed |-> FALSE,
     failed |-> FALSE] @@ Start

\* the previous buffer is not handed to the cache
AllocateExplicitIndexBufferNoCache(st, data, size, allocOk) ==
    LET h == NewIndexBufferObject(st.explicit.handle)
        new == [handle |-> h,
                vk |-> IF allocOk THEN ExplicitVkBuffer(h) ELSE VK_NULL_HANDLE,
                data |-> IF allocOk THEN SubSeq(data, 1, size) ELSE <<>>,
                allocated |-> allocOk]
    IN [Called(st, "new IndexBufferObject") EXCEPT !.p.mExplicitIbo = h, !.explicit = Object(new),
                                                  !.ibo = new, !.value = allocOk,
                                                  !.failed = @ \/ ~allocOk]

AllocateExplicitIndexBuffer(st, data, size, allocOk) ==
    LET s1 == IF st.p.mExplicitIbo # NullPtr
              THEN [Called(st, "CacheVBO") EXCEPT !.cached = Append(@, st.p.mExplicitIbo),
                                                 !.p.mExplicitIbo = NullPtr]
              ELSE st
        h == NewIndexBufferObject(st.explicit.handle)
        new == [handle |-> h,
                vk |-> IF allocOk THEN ExplicitVkBuffer(h) ELSE VK_NULL_HANDLE,
                data |-> IF allocOk THEN SubSeq(data, 1, size) ELSE <<>>,
                allocated |-> allocOk]
    IN [Called(s1, "new IndexBufferObject") EXCEPT !.p.mExplicitIbo = h, !.explicit = Object(new),
                                                   !.ibo = new, !.value = allocOk,
                                                   !.failed = @ \/ ~allocOk]

ConvertIndexBufferToUint16(st, srcData, elementCount, convertOk, allocOk) ==
    IF convertOk
    THEN AllocateExplicitIndexBuffer(st, ConvertBuffer(srcData, elementCount),
                                     elementCount * 2, allocOk)
    ELSE [st EXCEPT !.value = FALSE, !.failed = TRUE]

\* memcpy(data + (indexCount - 1) * elementByteSize, data, elementByteSize)
LineLoopConversion(data, indexCount, elementByteSize) ==
    [i \in 1..Len(data) |->
        IF /\ i > (indexCount - 1) * elementByteSize
           /\ i <= indexCount * elementByteSize
        THEN data[i - (indexCount - 1) * elementByteSize]
        ELSE data[i]]

SetMax(S) == CHOOSE m \in S : \A x \in S : x <= m

\* reports the first element only
GetMaxIndexFirstOnly(ibo, indexCount, actualSize, offset, garbage) ==
    U16(GetData(ibo, actualSize, offset, garbage), 0)

GetMaxIndex(ibo, indexCount, actualSize, offset, garbage) ==
    LET srcData == GetData(ibo, actualSize, offset, garbage)
    IN SetMax({U16(srcData, 0)} \cup {U16(srcData, i) : i \in 1..(indexCount - 1)})

PrepareIndexBufferObjectResult(st0, indexCount, type, memory, bound, boundOffset, lineLoop, convertOk, allocOk, allocOk2, garbage) ==
    LET s0 == [st0 EXCEPT !.p.mActiveIndexVkBuffer = VK_NULL_HANDLE, !.value = TRUE]
        actualSize == indexCount * ElementSize(type)
        s1 == IF bound
              THEN IF type = GL_UNSIGNED_BYTE
                   THEN ConvertIndexBufferToUint16(
                            [s0 EXCEPT !.offset = 0],
                            GetData(s0.ibo, indexCount, boundOffset, garbage),
                            indexCount, convertOk, allocOk)
                   ELSE [s0 EXCEPT !.offset = boundOffset]
              ELSE IF type = GL_UNSIGNED_BYTE
                   THEN ConvertIndexBufferToUint16(s0, memory, indexCount, convertOk, allocOk)
                   ELSE AllocateExplicitIndexBuffer(s0, memory, actualSize, allocOk)
        sizeOne == ElementSize(type)
        srcData == GetData(s1.ibo, actualSize - sizeOne, s1.offset, garbage)
                       \o [i \in 1..sizeOne |-> garbage]
        s2 == IF ~lineLoop THEN s1
              ELSE IF s1.ibo.handle = NullPtr
                   THEN [s1 EXCEPT !.crashed = TRUE]
                   ELSE AllocateExplicitIndexBuffer(
                            s1, LineLoopConversion(srcData, indexCount, sizeOne),
                            actualSize, allocOk2)
    IN IF s2.crashed \/ ~s2.value THEN s2
       ELSE [s2 EXCEPT !.written = TRUE,
                       !.firstIndex = s2.offset,
                       !.maxIndex = GetMaxIndex(s2.ibo, indexCount, actualSize, s2.offset, garbage),
                       !.p.mActiveIndexVkBuffer = s2.ibo.vk]

\* whether the first branch of PrepareIndexBufferObject allocates a buffer
FirstAllocation(type, bound, convertOk) ==
    IF type = GL_UNSIGNED_BYTE THEN convertOk ELSE ~bound

PrepareIndexBufferObject(type, values, bound, boundOffset, lineLoop, convertOk, allocOk, allocOk2, garbage) ==
    /\ program.mLinked
    /\ ~indexDraw.crashed
    /\ \E st \in {PrepareIndexBufferObjectResult(
                        StartIndex(IF bound
                                   THEN BoundBuffer(boundOffset, Encode(values, ClientSize(type)))
                                   ELSE NoBuffer),
                        Len(values), type, Encode(values, ClientSize(type)),
                        bound, boundOffset, lineLoop, convertOk, allocOk, allocOk2, garbage)} :
          /\ program' = st.p
          /\ explicitIbo' = st.explicit
          /\ calls' = st.calls
          /\ ret' = [op |-> "PrepareIndexBufferObject", value |-> st.value]
          /\ indexDraw' = [type |-> type, indexCount |-> Len(values), values |-> values,
                           bound |-> bound, offset |-> boundOffset, lineLoop |-> lineLoop,
                           failed |-> st.failed,
                           validatedBuffer |-> st.value,
                           written |-> st.written, firstIndex |-> st.firstIndex,
                           maxIndex |-> st.maxIndex, ibo |-> st.ibo, cached |-> st.cached,
                           crashed |-> st.crashed]
    /\ modeLineLoop' = lineLoop
    /\ UNCHANGED <<rmVars, binaryVars, compilerReflection, vkObjects, genericVertAttribs, textureVars, descriptorVars>>

\* ShaderProgram::~ShaderProgram: the native objects are released and the
\* current explicit index buffer, if there is one, is deleted
ShaderProgramDestructor ==
    /\ LET s1 == ReleaseVkObjects(Start)
           s2 == IF s1.p.mExplicitIbo # NullPtr
                 THEN [Called(s1, "delete mExplicitIbo") EXCEPT !.p.mExplicitIbo = NullPtr]
                 ELSE s1
       IN Finish("~ShaderProgram", s2)
    /\ explicitIbo' = Object(NoBuffer)
    /\ UNCHANGED <<rmVars, binaryVars, compilerReflection, genericVertAttribs, modeLineLoop,
                   textureVars, descriptorVars, indexDraw>>
(***************************************************************************)
(* Textures and framebuffers of the context                                *)
(***************************************************************************)
Textures == 1..NumTextures

TextureUnits == 0..(NumUnits - 1)

NoColorAttachment == [colorType |-> GL_NONE, colorTexture |-> NullPtr]

\* ResourceManager::IsTextureAttachedToFBO over the framebuffers fbs
IsTextureAttachedToFBO(fbs, texture) ==
    \E f \in DOMAIN fbs :
        fbs[f].colorType = GL_TEXTURE /\ texture = fbs[f].colorTexture

\* the calls of the client below are answered by the context
ContextCall(op) ==
    /\ calls' = <<>>
    /\ ret' = [op |-> "Context", value |-> TRUE]
    /\ UNCHANGED <<rmVars, indexVars, binaryVars, compilerReflection, vkObjects, vertexVars, descriptorSet,
                   lastUpdate>>

\* glTexImage2D / glTexParameter: the completeness of a texture changes
TexImage(t, completed, npot) ==
    /\ mTextures[t] # [completed |-> completed, npot |-> npot]
    /\ mTextures' = [mTextures EXCEPT ![t] = [completed |-> completed, npot |-> npot]]
    /\ ContextCall("TexImage")
    /\ UNCHANGED <<program, activeTexture, mFramebuffers, boundFramebuffer, pendingWrites>>

\* glBindTexture: the descriptors of the program in use have to be written anew
BindTexture(unit, t) ==
    /\ activeTexture[unit] # t
    /\ activeTexture' = [activeTexture EXCEPT ![unit] = t]
    /\ program' = [program EXCEPT !.mUpdateDescriptorSets = TRUE]
    /\ pendingWrites' = pendingWrites \cup {"BindTexture"}
    /\ ContextCall("BindTexture")
    /\ UNCHANGED <<mTextures, mFramebuffers, boundFramebuffer>>

\* glFramebufferTexture2D on the color attachment; t = NullPtr detaches
FramebufferTexture2D(f, t) ==
    /\ mFramebuffers[f].colorTexture # t
    /\ mFramebuffers' =
            [mFramebuffers EXCEPT ![f] =
                IF t = NullPtr THEN NoColorAttachment
                ELSE [colorType |-> GL_TEXTURE, colorTexture |-> t]]
    /\ ContextCall("FramebufferTexture2D")
    /\ UNCHANGED <<program, mTextures, activeTexture, boundFramebuffer, pendingWrites>>

\* glBindFramebuffer; f = 0 is the window surface
BindFramebuffer(f) ==
    /\ boundFramebuffer # f
    /\ boundFramebuffer' = f
    /\ ContextCall("BindFramebuffer")
    /\ UNCHANGED <<program, mTextures, activeTexture, mFramebuffers, pendingWrites>>

(***************************************************************************)
(* Uniform writes and ShaderProgram::UpdateDescriptorSet                   *)
(***************************************************************************)
\* the values a client writes to a non-sampler uniform
UniformValues == {0, 1}

IsSampler(uniform) == uniform.type = GL_SAMPLER_2D \/ uniform.type = GL_SAMPLER_CUBE

NoUpdate == [nth |-> 0, writes |-> {}, allocatedNewBufferObject |-> FALSE]

\* glUniform* on a uniform that is not a sampler; location is the uniform's index
SetUniformData(location, value) ==
    /\ program.mLinked
    /\ location \in DOMAIN program.sri.uniforms
    /\ ~IsSampler(program.sri.uniforms[location])
    /\ Finish("SetUniformData",
              [Start EXCEPT !.p.sri.clientData[location] = value,
                            !.p.mUpdateDescriptorData = TRUE])
    /\ pendingWrites' = pendingWrites \cup {"SetUniformData"}
    /\ UNCHANGED <<rmVars, indexVars, binaryVars, compilerReflection, vertexVars, textureVars, descriptorSet,
                   lastUpdate>>

\* where GetUniformLocation finds the fields of gl_DepthRange: a live uniform
\* that is not a sampler each, or -1
DepthRangeLocations(p) ==
    { l \in [{"near", "far", "diff"} -> {-1} \cup {i \in DOMAIN p.sri.uniforms : ~IsSampler(p.sri.uniforms[i])}] :
        \A a, b \in DOMAIN l : a # b /\ l[a] # -1 => l[a] # l[b] }

\* SetUniformData as UpdateBuiltInUniformData calls it
SetBuiltIn(st, location, value) ==
    IF location = -1 THEN st
    ELSE [Called(st, "SetUniformData") EXCEPT !.p.sri.clientData[location] = value,
                                             !.p.mUpdateDescriptorData = TRUE]

\* the descriptor objects are allocated anew with the depth range
UpdateBuiltInUniformDataRebuild(minDepthRange, maxDepthRange, l) ==
    /\ program.mLinked
    /\ Len(vkObjects) + 4 <= MaxVkObjects
    /\ Finish("UpdateBuiltInUniformData",
              AllocateVkDescriptoSet([Start EXCEPT !.p.mMinDepthRange = minDepthRange,
                                                   !.p.mMaxDepthRange = maxDepthRange]))
    /\ pendingWrites' = pendingWrites \cup {"SetUniformData"}
    /\ UNCHANGED <<rmVars, indexVars, binaryVars, compilerReflection, vertexVars, textureVars, descriptorSet,
                   lastUpdate>>

\* glDepthRangef reaches the program in use before a draw
UpdateBuiltInUniformData(minDepthRange, maxDepthRange, l) ==
    /\ program.mLinked
    /\ LET s1 == [Start EXCEPT !.p.mMinDepthRange = minDepthRange,
                               !.p.mMaxDepthRange = maxDepthRange]
           s2 == SetBuiltIn(s1, l["near"], minDepthRange)
           s3 == SetBuiltIn(s2, l["far"], maxDepthRange)
           s4 == SetBuiltIn(s3, l["diff"], maxDepthRange - minDepthRange)
           unchanged == program.mMinDepthRange = minDepthRange /\ program.mMaxDepthRange = maxDepthRange
       IN /\ Finish("UpdateBuiltInUniformData", IF unchanged THEN Start ELSE s4)
          /\ pendingWrites' = IF Len(s4.calls) > 0 /\ ~unchanged
                              THEN pendingWrites \cup {"SetUniformData"} ELSE pendingWrites
    /\ UNCHANGED <<rmVars, indexVars, binaryVars, compilerReflection, vertexVars, textureVars, descriptorSet,
                   lastUpdate>>

\* mutant: the sampler write does not mark the descriptor set
SetUniformSamplerUnmarked(st, location, textureUnit) ==
    [st EXCEPT !.p.sri.clientData[location] = textureUnit]

SetUniformSamplerResult(st, location, textureUnit) ==
    [st EXCEPT !.p.sri.clientData[location] = textureUnit,
               !.p.mUpdateDescriptorSets = TRUE]

\* glUniform1i on a sampler uniform
SetUniformSampler(location, textureUnit) ==
    /\ program.mLinked
    /\ location \in DOMAIN program.sri.uniforms
    /\ IsSampler(program.sri.uniforms[location])
    /\ Finish("SetUniformSampler", SetUniformSamplerResult(Start, location, textureUnit))
    /\ pendingWrites' = pendingWrites \cup {"SetUniformSampler"}
    /\ UNCHANGED <<rmVars, indexVars, binaryVars, compilerReflection, vertexVars, textureVars, descriptorSet,
                   lastUpdate>>

\* indices of the live uniforms that are samplers, in the order of the scan
SamplerUniforms(p) ==
    SelectSeq([i \in 1..Len(p.sri.uniforms) |-> i], LAMBDA i : IsSampler(p.sri.uniforms[i]))

\* the texture a sampler uniform reads: the one bound to the unit it names
ActiveTextureOf(p, units, i) == units[p.sri.clientData[i]]

\* activeTexture->CreateVkSampler() and the three fields written from the
\* texture at the end of the loop body: the descriptor of texture image names
\* the sampler the call gave it
WithVkSampler(image, how, made) ==
    [image |-> image, how |-> how, sampler |-> image,
     calls |-> made \o <<"CreateVkSampler">>]

\* mutant: the texture is never replaced by a copy
ResolveTextureNoCopy(texs, fbs, t, samp, copyCompleted) ==
    IF ~texs[t].completed \/ ~texs[t].npot
    THEN WithVkSampler(t, "placeholder", <<"SetState">>)
    ELSE WithVkSampler(t, "direct", <<>>)

\* mutant: the attachment test comes before the completeness test
ResolveTextureAttachedFirst(texs, fbs, t, samp, copyCompleted) ==
    IF IsTextureAttachedToFBO(fbs, t)
    THEN WithVkSampler(NumTextures + samp, "copy",
                       <<"CopyPixelsToHost", "new Texture">>
                           \o (IF copyCompleted THEN <<"CacheTexture">> ELSE <<>>))
    ELSE IF ~texs[t].completed \/ ~texs[t].npot
         THEN WithVkSampler(t, "placeholder", <<"SetState">>)
         ELSE WithVkSampler(t, "direct", <<>>)

\* the body of the sampler loop for the samp-th sampler, bound texture t: the
\* image the descriptor refers to and the calls made.  A copy is a texture
\* created by this call; its handle is NumTextures + samp.
ResolveTexture(texs, fbs, t, samp, copyCompleted) ==
    IF ~texs[t].completed \/ ~texs[t].npot
    THEN WithVkSampler(t, "placeholder", <<"SetState">>)
    ELSE IF IsTextureAttachedToFBO(fbs, t)
         THEN WithVkSampler(NumTextures + samp, "copy",
                            <<"CopyPixelsToHost", "new Texture">>
                                \o (IF copyCompleted THEN <<"CacheTexture">> ELSE <<>>))
         ELSE WithVkSampler(t, "direct", <<>>)

\* UpdateSamplerDescriptors: st.descriptors is the content of the descriptor set
UpdateSamplerDescriptors(st, texs, units, fbs, copyCompleted) ==
    LET p == st.p
        samplers == SamplerUniforms(p)
        textureDescriptors ==
            [samp \in 1..Len(samplers) |->
                ResolveTexture(texs, fbs, ActiveTextureOf(p, units, samplers[samp]),
                               samp, copyCompleted)]
        map_block_texDescriptor(block) ==
            CHOOSE samp \in 1..Len(samplers) :
                p.sri.uniforms[samplers[samp]].blockIndex = block
        writes ==
            [i \in 1..Len(p.sri.blocks) |->
                IF p.sri.blocks[i].opaque
                THEN [dstSet |-> p.mVkDescSet, dstBinding |-> p.sri.blocks[i].binding,
                      descriptorType |-> "COMBINED_IMAGE_SAMPLER",
                      image |-> textureDescriptors[map_block_texDescriptor(i)].image,
                      how |-> textureDescriptors[map_block_texDescriptor(i)].how,
                      sampler |-> textureDescriptors[map_block_texDescriptor(i)].sampler]
                ELSE [dstSet |-> p.mVkDescSet, dstBinding |-> p.sri.blocks[i].binding,
                      descriptorType |-> "UNIFORM_BUFFER", image |-> NullPtr,
                      how |-> "buffer", sampler |-> VK_NULL_HANDLE]]
    IN [st EXCEPT !.calls = @ \o Flatten([samp \in 1..Len(samplers) |->
                                            textureDescriptors[samp].calls])
                              \o <<"vkUpdateDescriptorSets">>,
                  !.descriptors = writes,
                  !.p.mUpdateDescriptorSets = FALSE]

\* UpdateUniformBufferData: the client data of the buffer-backed uniforms goes
\* to the buffer objects
UpdateUniformBufferData(st, allocatedNewBufferObject) ==
    [st EXCEPT !.calls = Append(@, "UpdateUniformBufferData"),
               !.p.sri.bufferData =
                    [i \in DOMAIN @ |-> IF IsSampler(st.p.sri.uniforms[i]) THEN @[i]
                                        ELSE st.p.sri.clientData[i]],
               !.p.mUpdateDescriptorSets = @ \/ allocatedNewBufferObject,
               !.p.mUpdateDescriptorData = FALSE]

\* the descriptors are written whatever mUpdateDescriptorSets holds
UpdateDescriptorSetResultUngated(st0, texs, units, fbs, allocatedNewBufferObject, copyCompleted) ==
    LET s0 == IF st0.p.mVkDescSet = VK_NULL_HANDLE
              THEN Called(st0, "assert(mVkDescSet)") ELSE st0
    IN IF Len(s0.p.sri.blocks) = 0 THEN s0
       ELSE LET s1 == IF s0.p.mUpdateDescriptorData
                      THEN UpdateUniformBufferData(s0, allocatedNewBufferObject)
                      ELSE s0
            IN UpdateSamplerDescriptors(s1, texs, units, fbs, copyCompleted)

\* the count of live uniform blocks is not looked at
UpdateDescriptorSetResultAnyBlocks(st0, texs, units, fbs, allocatedNewBufferObject, copyCompleted) ==
    LET s0 == IF st0.p.mVkDescSet = VK_NULL_HANDLE
              THEN Called(st0, "assert(mVkDescSet)") ELSE st0
        s1 == IF s0.p.mUpdateDescriptorData
              THEN UpdateUniformBufferData(s0, allocatedNewBufferObject)
              ELSE s0
        s2 == IF \E i \in 1..Len(s1.p.sri.uniforms) :
                    /\ IsSampler(s1.p.sri.uniforms[i])
                    /\ IsTextureAttachedToFBO(fbs, ActiveTextureOf(s1.p, units, i))
              THEN [s1 EXCEPT !.p.mUpdateDescriptorSets = TRUE]
              ELSE s1
    IN IF ~s2.p.mUpdateDescriptorSets THEN s2
       ELSE UpdateSamplerDescriptors(s2, texs, units, fbs, copyCompleted)

UpdateDescriptorSetResult(st0, texs, units, fbs, allocatedNewBufferObject, copyCompleted) ==
    LET s0 == IF st0.p.mVkDescSet = VK_NULL_HANDLE
              THEN Called(st0, "assert(mVkDescSet)") ELSE st0
    IN IF Len(s0.p.sri.blocks) = 0 THEN s0
       ELSE LET s1 == IF s0.p.mUpdateDescriptorData
                      THEN UpdateUniformBufferData(s0, allocatedNewBufferObject)
                      ELSE s0
                s2 == IF \E i \in 1..Len(s1.p.sri.uniforms) :
                            /\ IsSampler(s1.p.sri.uniforms[i])
                            /\ IsTextureAttachedToFBO(fbs, ActiveTextureOf(s1.p, units, i))
                      THEN [s1 EXCEPT !.p.mUpdateDescriptorSets = TRUE]
                      ELSE s1
            IN IF ~s2.p.mUpdateDescriptorSets THEN s2
               ELSE UpdateSamplerDescriptors(s2, texs, units, fbs, copyCompleted)

\* a copy is made when a sampler reads a complete texture that is attached
MakesCopy ==
    \E i \in 1..Len(program.sri.uniforms) :
        /\ IsSampler(program.sri.uniforms[i])
        /\ LET t == ActiveTextureOf(program, activeTexture, i)
           IN /\ mTextures[t].completed /\ mTextures[t].npot
              /\ IsTextureAttachedToFBO(mFramebuffers, t)

\* the draw path calls UpdateDescriptorSet on the program in use.  The flush
\* reports whether it allocated a new buffer object; the copy of an attached
\* texture is complete or not.
UpdateDescriptorSet(allocatedNewBufferObject, copyCompleted) ==
    /\ program.mLinked
    /\ allocatedNewBufferObject => program.mUpdateDescriptorData
    /\ copyCompleted => MakesCopy
    /\ LET st == UpdateDescriptorSetResult([descriptors |-> descriptorSet] @@ Start,
                        mTextures, activeTexture, mFramebuffers,
                        allocatedNewBufferObject, copyCompleted)
       IN /\ Finish("UpdateDescriptorSet", st)
          /\ descriptorSet' = st.descriptors
    /\ lastUpdate' = [nth |-> IF lastUpdate.nth < 2 THEN lastUpdate.nth + 1 ELSE 2,
                      writes |-> pendingWrites,
                      allocatedNewBufferObject |-> allocatedNewBufferObject]
    /\ pendingWrites' = {}
    /\ UNCHANGED <<rmVars, indexVars, binaryVars, compilerReflection, vertexVars, textureVars>>

(***************************************************************************)
(* ResourceManager: framebuffer objects and what is attached to them       *)
(***************************************************************************)
Framebuffers == 1..NumFramebuffers

AttachmentPoints == {"color", "depth", "stencil"}

AttachmentTypes == {GL_NONE, GL_TEXTURE, GL_RENDERBUFFER}

\* the names of the textures and of the renderbuffers that can be attached
AttachmentNames == 1..NumAttachmentNames

\* a framebuffer object nothing is attached to
NoAttachments(updated) ==
    [colorType |-> GL_NONE, colorName |-> 0,
     depthType |-> GL_NONE, depthName |-> 0,
     stencilType |-> GL_NONE, stencilName |-> 0,
     updated |-> updated]

\* the framebuffer fb with the object (type, name) at the attachment point
Attached(fb, point, type, name) ==
    IF point = "color" THEN [fb EXCEPT !.colorType = type, !.colorName = name]
    ELSE IF point = "depth" THEN [fb EXCEPT !.depthType = type, !.depthName = name]
    ELSE [fb EXCEPT !.stencilType = type, !.stencilName = name]

\* glFramebufferTexture2D / glFramebufferRenderbuffer: the object name of the
\* type is attached to the point; type GL_NONE with name 0 detaches
FramebufferAttachment(f, point, type, name) ==
    /\ (type = GL_NONE) <=> (name = 0)
    /\ mFramebuffers[f] # Attached(mFramebuffers[f], point, type, name)
    /\ mFramebuffers' = [mFramebuffers EXCEPT ![f] = Attached(@, point, type, name)]
    /\ ContextCall("FramebufferAttachment")
    /\ UNCHANGED <<program, mTextures, activeTexture, boundFramebuffer, pendingWrites>>

\* the condition of the loop body of UpdateFramebufferObjects
HasAttachment(fb, index, target) ==
    \/ fb.colorType = target /\ index = fb.colorName
    \/ fb.depthType = target /\ index = fb.depthName
    \/ fb.stencilType = target /\ index = fb.stencilName

\* only the color attachment is compared
UpdateFramebufferObjectsResultColorOnly(fbs, index, target) ==
    [f \in DOMAIN fbs |->
        IF fbs[f].colorType = target /\ index = fbs[f].colorName
        THEN [fbs[f] EXCEPT !.updated = TRUE]
        ELSE fbs[f]]

\* the framebuffers after UpdateFramebufferObjects(index, target): SetUpdated
\* on every framebuffer that meets the condition
UpdateFramebufferObjectsResult(fbs, index, target) ==
    [f \in DOMAIN fbs |->
        IF HasAttachment(fbs[f], index, target)
        THEN [fbs[f] EXCEPT !.updated = TRUE]
        ELSE fbs[f]]

UpdateFramebufferObjects(index, target) ==
    /\ mFramebuffers' = UpdateFramebufferObjectsResult(mFramebuffers, index, target)
    /\ calls' = [i \in 1..Cardinality({f \in DOMAIN mFramebuffers :
                                         HasAttachment(mFramebuffers[f], index, target)})
                    |-> "SetUpdated"]
    /\ ret' = [op |-> "UpdateFramebufferObjects", value |-> TRUE]
    /\ UNCHANGED <<rmVars, program, compilerReflection, vkObjects, vertexVars, mTextures,
                   activeTexture, boundFramebuffer, descriptorVars, indexVars, binaryVars>>


(***************************************************************************)
(* Program binaries: the reflection, the SPIR-V of both stages and the     *)
(* data of the pipeline cache, in 32-bit words                             *)
(***************************************************************************)
\* the first word of a SPIR-V module
SpirvMagic == 119734787

\* vulkanAPI::PipelineCache: the native cache and the data it returns; a
\* cache created without initial data holds the driver's header
PipelineCacheHandle == MaxVkObjects + 1
DriverHeader == <<32>>
CreatePipelineCache(data) ==
    [handle |-> PipelineCacheHandle, data |-> IF data = <<>> THEN DriverHeader ELSE data]

\* the attributes and uniforms the program reports as live
LiveReflection(p) == [attributes |-> p.sri.attributes, uniforms |-> p.sri.uniforms]

NoBinary ==
    [reflection |-> LiveReflection(NewProgram), spv |-> <<<<>>, <<>>>>,
     load |-> "none", fresh |-> FALSE]

HasVertexShader(slots) == slots[1] # NullPtr
HasFragmentShader(slots) == slots[2] # NullPtr

SetShaderModulesResult(st, slots, spv) ==
    LET mStageCount == (IF HasVertexShader(slots) THEN 1 ELSE 0)
                           + (IF HasFragmentShader(slots) THEN 1 ELSE 0)
    IN IF mStageCount = 1 THEN Called(st, "CreateVkShaderModule")
       ELSE IF mStageCount = 2
            THEN [Called(Called(st, "CreateVkShaderModule"), "CreateVkShaderModule")
                     EXCEPT !.p.mShaderSPVsize = <<Len(spv[slots[1]]), Len(spv[slots[2]])>>,
                            !.p.mShaderSPVdata = <<slots[1], slots[2]>>]
            ELSE st

SetShaderModules ==
    /\ program.mLinked
    /\ Finish("SetShaderModules", SetShaderModulesResult(Start, mShaders[1], shSpv))
    /\ UNCHANGED <<rmVars, compilerReflection, ctxVars>>

GetVkPipelineCache ==
    /\ program.mLinked
    /\ program' = IF program.mPipelineCache.handle = VK_NULL_HANDLE
                  THEN [program EXCEPT !.mPipelineCache = CreatePipelineCache(<<>>)]
                  ELSE program
    /\ calls' = IF program.mPipelineCache.handle = VK_NULL_HANDLE
                THEN <<"vkCreatePipelineCache">> ELSE <<>>
    /\ ret' = [op |-> "GetVkPipelineCache", value |-> TRUE]
    /\ UNCHANGED <<rmVars, compilerReflection, vkObjects, ctxVars>>

\* the words mShaderSPVdata[i] points to
SpvData(p, spv, i) ==
    IF p.mShaderSPVdata[i] = NullPtr THEN <<>>
    ELSE SubSeq(spv[p.mShaderSPVdata[i]], 1, p.mShaderSPVsize[i])

SerializeShadersSpirv(p, spv) ==
    <<4 * p.mShaderSPVsize[1]>> \o SpvData(p, spv, 1)
        \o <<4 * p.mShaderSPVsize[2]>> \o SpvData(p, spv, 2)

\* GetBinaryLength: the value it returns for the program p
GetBinaryLength(p) ==
    LET vkPipelineCacheDataLength ==
            IF p.mPipelineCache.handle # VK_NULL_HANDLE THEN 4 * Len(p.mPipelineCache.data) ELSE 0
        spirvSize == 2 * 4 + 4 * (p.mShaderSPVsize[1] + p.mShaderSPVsize[2])
    IN vkPipelineCacheDataLength + p.sri.reflectionSize + spirvSize

GetBinaryData ==
    /\ program.mLinked
    /\ LET reflection == SerializeReflection(compilerReflection)
           spirv == SerializeShadersSpirv(program, shSpv)
           cache == program.mPipelineCache
       IN /\ binary' = reflection \o spirv
                           \o (IF cache.handle # VK_NULL_HANDLE THEN cache.data ELSE <<>>)
          /\ binarySize' = IF cache.handle # VK_NULL_HANDLE
                           THEN 4 * (Len(cache.data) + Len(reflection) + Len(spirv))
                           ELSE 0
          /\ calls' = <<"SerializeReflection">>
                          \o (IF cache.handle # VK_NULL_HANDLE
                              THEN <<"vkGetPipelineCacheData">> ELSE <<>>)
    /\ binaryOf' = [reflection |-> LiveReflection(program),
                    spv |-> <<SpvData(program, shSpv, 1), SpvData(program, shSpv, 2)>>,
                    load |-> "none", fresh |-> FALSE]
    /\ ret' = [op |-> "GetBinaryData", value |-> TRUE]
    /\ UNCHANGED <<rmVars, program, compilerReflection, vkObjects, vertexVars, textureVars,
                   descriptorVars, indexVars>>

\* ShaderProgram::ShaderProgram: another program object takes the place of
\* the one under study, with no shader attached; the compiler it is given
\* holds the reflection r of whatever it processed last
NewShaderProgram(r) ==
    /\ program' = NewProgram
    /\ mShaders' = [mShaders EXCEPT ![1] = <<NullPtr, NullPtr>>]
    /\ compilerReflection' = r
    /\ calls' = <<>>
    /\ ret' = [op |-> "ShaderProgram", value |-> TRUE]
    /\ UNCHANGED <<shaderVars, prState, prRef, prMark, poolVars, purgeVars, objectVars,
                   vkObjects, ctxVars>>

\* the words of the binary from word index from + 1 on
WordsFrom(words, from) == SubSeq(words, from + 1, Len(words))

\* DeserializeShadersSpirv: the two blocks of words read from the binary
SpirvBlocks(words) ==
    LET vsSpirvSize == words[1]
        fsAt == 1 + vsSpirvSize \div 4
        fsSpirvSize == words[fsAt + 1]
    IN [vs |-> SubSeq(words, 2, fsAt),
        fs |-> SubSeq(words, fsAt + 2, fsAt + 1 + fsSpirvSize \div 4),
        size |-> 8 + vsSpirvSize + fsSpirvSize]

\* std::copy(..., back_inserter(GetVertexShader()->GetSPV())) with no vertex
\* shader: writing through the null pointer ends the process; copying
\* nothing does not touch it
CopyFaults(slot, words) == slot = NullPtr /\ words # <<>>

UsePrecompiledBinary(garbage) ==
    /\ binarySize > 0
    /\ Len(vkObjects) + 4 <= MaxVkObjects
    /\ LET slots == mShaders[1]
           s1 == Called(ResetVulkanVertexInput([Start EXCEPT !.p.mLinked = TRUE]),
                        "DeserializeReflection")
           read == DeserializeReflection(binary)
           reflectionOffset == read.size
           blocks == SpirvBlocks(WordsFrom(binary, reflectionOffset \div 4))
           spirvOffset == blocks.size
           vsFault == CopyFaults(slots[1], blocks.vs)
           fsFault == ~vsFault /\ CopyFaults(slots[2], blocks.fs)
           spv1 == IF slots[1] = NullPtr THEN shSpv
                   ELSE [shSpv EXCEPT ![slots[1]] = @ \o blocks.vs]
           spv2 == IF slots[2] = NullPtr \/ vsFault THEN spv1
                   ELSE [spv1 EXCEPT ![slots[2]] = @ \o blocks.fs]
           s2 == BuildShaderResourceInterface(s1, read.reflection)
           first == (reflectionOffset + spirvOffset) \div 4
           cacheData == [i \in 1..((binarySize - reflectionOffset) \div 4) |->
                            IF first + i <= Len(binary) THEN binary[first + i] ELSE garbage]
           s3 == [s2 EXCEPT !.p.mPipelineCache = CreatePipelineCache(cacheData),
                            !.p.mIsPrecompiled = TRUE]
       IN /\ \A s \in 1..2 : Len(spv2[s]) <= MaxSpvWords
          /\ shSpv' = spv2
          /\ compilerReflection' = read.reflection
          /\ binaryOf' = [binaryOf EXCEPT
                             !.load = IF vsFault \/ fsFault THEN "crashed" ELSE "completed",
                             !.fresh = program = NewProgram /\ slots = <<NullPtr, NullPtr>>]
          /\ IF vsFault \/ fsFault
             THEN Finish("UsePrecompiledBinary", s1)
             ELSE Finish("UsePrecompiledBinary", [Called(s3, "vkCreatePipelineCache")
                                                    EXCEPT !.value = TRUE])
    /\ UNCHANGED <<shState, shType, shCompiled, shRef, shMark, shFreed, shSurvived,
                   programVars, poolVars, purgeVars, objectVars, vertexVars, textureVars,
                   descriptorVars, indexVars, binary, binarySize>>
(***************************************************************************)
(* Specification of the shading namespace and the purge lists              *)
(***************************************************************************)
\* the rendering context right after its creation
InitTextures ==
    /\ mTextures = [t \in 1..NumTextures |-> [completed |-> TRUE, npot |-> TRUE]]
    /\ activeTexture = [u \in 0..(NumUnits - 1) |-> 1]
    /\ mFramebuffers = [f \in 1..1 |-> NoColorAttachment]
    /\ boundFramebuffer = 0

InitDescriptors ==
    /\ descriptorSet = <<>>
    /\ pendingWrites = {}
    /\ lastUpdate = NoUpdate

InitExplicitIbo ==
    /\ explicitIbo = Object(NoBuffer)
    /\ indexDraw = NoIndexDraw

InitBinary ==
    /\ binary = <<>>
    /\ binarySize = 0
    /\ binaryOf = NoBinary

InitContext ==
    /\ genericVertAttribs = [l \in Locations |-> [buffer |-> NullPtr, stride |-> 0]]
    /\ modeLineLoop = FALSE
    /\ InitTextures
    /\ InitDescriptors
    /\ InitExplicitIbo
    /\ InitBinary

InitPurge ==
    /\ shState = [s \in 1..NumShaders |-> "none"]
    /\ shType = [s \in 1..NumShaders |-> SHADER_TYPE_VERTEX]
    /\ shCompiled = [s \in 1..NumShaders |-> FALSE]
    /\ shRef = [s \in 1..NumShaders |-> 0]
    /\ shMark = [s \in 1..NumShaders |-> FALSE]
    /\ shSpv = [s \in 1..NumShaders |-> <<>>]
    /\ shFreed = [s \in 1..NumShaders |-> 0]
    /\ shSurvived = [s \in 1..NumShaders |-> FALSE]
    /\ prState = [p \in 1..NumPrograms |-> "none"]
    /\ prRef = [p \in 1..NumPrograms |-> 0]
    /\ prMark = [p \in 1..NumPrograms |-> FALSE]
    /\ mShaders = [p \in 1..NumPrograms |-> <<NullPtr, NullPtr>>]
    /\ mShadingObjectPool = <<>>
    /\ mShadingObjectCount = 1
    /\ mPurgeListShaders = {}
    /\ mPurgeListShaderPrograms = {}
    /\ mPurgeListBufferObject = {}
    /\ mPurgeListTexture = {}
    /\ mPurgeListRenderbuffers = {}
    /\ boState = <<>> /\ boRef = <<>>
    /\ texState = <<>> /\ texRef = <<>>
    /\ rbState = <<>> /\ rbRef = <<>>
    /\ program = NewProgram
    /\ compilerReflection = Reflection(0, <<>>)
    /\ vkObjects = <<>>
    /\ calls = <<>>
    /\ ret = [op |-> "none", value |-> FALSE]
    /\ InitContext

ShadingIds == 1..(NumShaders + NumPrograms)

NextPurge ==
    \/ \E type \in {SHADER_TYPE_VERTEX, SHADER_TYPE_FRAGMENT} : CreateShader(type)
    \/ CreateProgram
    \/ \E id \in ShadingIds : DeleteShader(id)
    \/ \E id \in ShadingIds : DeleteProgram(id)
    \/ \E id \in {0} \cup ShadingIds : UseProgram(id)
    \/ \E p \in Programs, s \in Shaders : AttachShader(p, s)
    \/ \E p \in Programs, s \in Shaders : DetachShader(p, s)
    \/ CleanPurgeList

SpecPurge == InitPurge /\ [][NextPurge]_vars

(***************************************************************************)
(* Specification of the sweep: a program with its two shaders and objects  *)
(* of the three plain kinds, all created before                            *)
(***************************************************************************)
InitSweep ==
    /\ shState = [s \in 1..2 |-> "live"]
    /\ shType = [s \in 1..2 |-> IF s = 1 THEN SHADER_TYPE_VERTEX ELSE SHADER_TYPE_FRAGMENT]
    /\ shCompiled = [s \in 1..2 |-> FALSE]
    /\ shRef = [s \in 1..2 |-> 0]
    /\ shMark = [s \in 1..2 |-> FALSE]
    /\ shSpv = [s \in 1..2 |-> <<>>]
    /\ shFreed = [s \in 1..2 |-> 0]
    /\ shSurvived = [s \in 1..2 |-> FALSE]
    /\ prState = [p \in 1..1 |-> "live"]
    /\ prRef = [p \in 1..1 |-> 0]
    /\ prMark = [p \in 1..1 |-> FALSE]
    /\ mShaders = [p \in 1..1 |-> <<NullPtr, NullPtr>>]
    /\ mShadingObjectPool =
            [id \in 1..3 |-> IF id = 3 THEN [type |-> SHADER_PROGRAM_ID, arrayIndex |-> 1]
                             ELSE [type |-> SHADER_ID, arrayIndex |-> id]]
    /\ mShadingObjectCount = 4
    /\ mPurgeListShaders = {}
    /\ mPurgeListShaderPrograms = {}
    /\ mPurgeListBufferObject = {}
    /\ mPurgeListTexture = {}
    /\ mPurgeListRenderbuffers = {}
    /\ boState = [o \in 1..NumObjects |-> "live"] /\ boRef = [o \in 1..NumObjects |-> 0]
    /\ texState = [o \in 1..NumObjects |-> "live"] /\ texRef = [o \in 1..NumObjects |-> 0]
    /\ rbState = [o \in 1..NumObjects |-> "live"] /\ rbRef = [o \in 1..NumObjects |-> 0]
    /\ program = NewProgram
    /\ compilerReflection = Reflection(0, <<>>)
    /\ vkObjects = <<>>
    /\ calls = <<>>
    /\ ret = [op |-> "none", value |-> FALSE]
    /\ InitContext

NextSweep ==
    \/ \E id \in 1..3 : DeleteShader(id)
    \/ \E id \in 1..3 : DeleteProgram(id)
    \/ \E id \in 0..3 : UseProgram(id)
    \/ \E p \in Programs, s \in Shaders : AttachShader(p, s)
    \/ \E p \in Programs, s \in Shaders : DetachShader(p, s)
    \/ \E kind \in ObjectKinds, o \in 1..NumObjects : BindObject(kind, o)
    \/ \E kind \in ObjectKinds, o \in 1..NumObjects : UnbindObject(kind, o)
    \/ \E kind \in ObjectKinds, o \in 1..NumObjects : AddToPurgeList(kind, o)
    \/ CleanPurgeList

SpecSweep == InitSweep /\ [][NextSweep]_vars

(***************************************************************************)
(* Specification of linking: one program, a vertex and a fragment shader   *)
(***************************************************************************)
InitLink ==
    /\ shState = [s \in 1..2 |-> "live"]
    /\ shType = [s \in 1..2 |-> IF s = 1 THEN SHADER_TYPE_VERTEX ELSE SHADER_TYPE_FRAGMENT]
    /\ shCompiled = [s \in 1..2 |-> FALSE]
    /\ shRef = [s \in 1..2 |-> 0]
    /\ shMark = [s \in 1..2 |-> FALSE]
    /\ shSpv = [s \in 1..2 |-> <<>>]
    /\ shFreed = [s \in 1..2 |-> 0]
    /\ shSurvived = [s \in 1..2 |-> FALSE]
    /\ prState = [p \in 1..1 |-> "live"]
    /\ prRef = [p \in 1..1 |-> 0]
    /\ prMark = [p \in 1..1 |-> FALSE]
    /\ mShaders = [p \in 1..1 |-> <<NullPtr, NullPtr>>]
    /\ mShadingObjectPool =
            [id \in 1..3 |-> IF id = 3 THEN [type |-> SHADER_PROGRAM_ID, arrayIndex |-> 1]
                             ELSE [type |-> SHADER_ID, arrayIndex |-> id]]
    /\ mShadingObjectCount = 4
    /\ mPurgeListShaders = {}
    /\ mPurgeListShaderPrograms = {}
    /\ mPurgeListBufferObject = {}
    /\ mPurgeListTexture = {}
    /\ mPurgeListRenderbuffers = {}
    /\ boState = <<>> /\ boRef = <<>>
    /\ texState = <<>> /\ texRef = <<>>
    /\ rbState = <<>> /\ rbRef = <<>>
    /\ program = NewProgram
    /\ compilerReflection = Reflection(0, <<>>)
    /\ vkObjects = <<>>
    /\ calls = <<>>
    /\ ret = [op |-> "none", value |-> FALSE]
    /\ InitContext

NextLink ==
    \/ \E s \in Shaders, ok \in BOOLEAN : CompileShader(s, ok)
    \/ \E s \in Shaders : AttachShader(1, s)
    \/ \E s \in Shaders : DetachShader(1, s)
    \/ \E c \in CompilerAnswers : LinkProgram(c)

SpecLink == InitLink /\ [][NextLink]_vars


(***************************************************************************)
(* Specifications of a linked program: both stages compiled and attached,  *)
(* the program linked once with reflection r                               *)
(***************************************************************************)
InitCompiled(spv) ==
    /\ shState = [s \in 1..2 |-> "live"]
    /\ shType = [s \in 1..2 |-> IF s = 1 THEN SHADER_TYPE_VERTEX ELSE SHADER_TYPE_FRAGMENT]
    /\ shCompiled = [s \in 1..2 |-> TRUE]
    /\ shRef = [s \in 1..2 |-> 1]
    /\ shMark = [s \in 1..2 |-> FALSE]
    /\ shSpv = spv
    /\ shFreed = [s \in 1..2 |-> 0]
    /\ shSurvived = [s \in 1..2 |-> FALSE]
    /\ prState = [p \in 1..1 |-> "live"]
    /\ prRef = [p \in 1..1 |-> 0]
    /\ prMark = [p \in 1..1 |-> FALSE]
    /\ mShaders = [p \in 1..1 |-> <<1, 2>>]
    /\ mShadingObjectPool =
            [id \in 1..3 |-> IF id = 3 THEN [type |-> SHADER_PROGRAM_ID, arrayIndex |-> 1]
                             ELSE [type |-> SHADER_ID, arrayIndex |-> id]]
    /\ mShadingObjectCount = 4
    /\ mPurgeListShaders = {}
    /\ mPurgeListShaderPrograms = {}
    /\ mPurgeListBufferObject = {}
    /\ mPurgeListTexture = {}
    /\ mPurgeListRenderbuffers = {}
    /\ boState = <<>> /\ boRef = <<>>
    /\ texState = <<>> /\ texRef = <<>>
    /\ rbState = <<>> /\ rbRef = <<>>

InitAttached == InitCompiled([s \in 1..2 |-> <<>>])

LinkedOnce(r) ==
    /\ compilerReflection = r
    /\ vkObjects = LinkedProgram(r).objs
    /\ calls = <<>>
    /\ ret = [op |-> "none", value |-> FALSE]

InitLinked(r) == InitAttached /\ LinkedOnce(r)

\* live attributes of the linked vertex shader: three vectors, a two-column
\* matrix and a vector, two attributes aliased on one location, and two
\* vectors declared in descending order of location
AttributeLayouts ==
    { <<[location |-> 0, occupied |-> 1], [location |-> 1, occupied |-> 1],
        [location |-> 2, occupied |-> 1]>>,
      <<[location |-> 0, occupied |-> 2], [location |-> 2, occupied |-> 1]>>,
      <<[location |-> 0, occupied |-> 2], [location |-> 1, occupied |-> 1]>>,
      <<[location |-> 2, occupied |-> 1], [location |-> 0, occupied |-> 1]>> }

\* an indexed draw made earlier may have left an active index buffer
InitVertex ==
    /\ \E layout \in AttributeLayouts, index \in {VK_NULL_HANDLE, BoundIndexVkBuffer} :
        LET r == [Reflection(0, <<>>) EXCEPT !.attributes = layout] IN
            /\ InitLinked(r)
            /\ program = [LinkedProgram(r).p EXCEPT !.mActiveIndexVkBuffer = index]
    /\ genericVertAttribs = [l \in Locations |-> [buffer |-> 1, stride |-> 12]]
    /\ modeLineLoop = FALSE
    /\ InitTextures
    /\ InitDescriptors
    /\ InitExplicitIbo
    /\ InitBinary

\* the handles the buffers created by one draw get, by position of the visit:
\* ascending or descending; a draw that creates none gets the first
FreshHandles(copy) ==
    {[k \in 1..GLOVE_MAX_VERTEX_ATTRIBS |-> NumVertexBuffers + k]}
    \cup (IF copy
          THEN {[k \in 1..GLOVE_MAX_VERTEX_ATTRIBS |->
                    NumVertexBuffers + GLOVE_MAX_VERTEX_ATTRIBS + 1 - k]}
          ELSE {})

NextVertex ==
    \/ \E location \in Locations, buffer \in VertexBuffers, stride \in Strides :
            VertexAttribPointer(location, buffer, stride)
    \/ \E lineLoop \in BOOLEAN, updatedVertexAttrib \in BOOLEAN,
          updatedVBO \in {{}, {GLOVE_MAX_VERTEX_ATTRIBS - 1}} :
            \E fresh \in FreshHandles(CopyPath(program, lineLoop)) :
                PrepareVertexAttribBufferObjects(lineLoop, updatedVertexAttrib,
                                                 updatedVBO, fresh)

SpecVertex == InitVertex /\ [][NextVertex]_vars

(***************************************************************************)
(* Specification of the descriptor updates of a linked program             *)
(***************************************************************************)
\* the uniforms of the linked program: a float and a sampler, or a float alone
InitDescriptor ==
    /\ \E types \in {<<GL_FLOAT, GL_SAMPLER_2D>>, <<GL_FLOAT>>} :
            /\ InitLinked(Reflection(1, types))
            /\ program = LinkedProgram(Reflection(1, types)).p
    /\ genericVertAttribs = [l \in Locations |-> [buffer |-> NullPtr, stride |-> 0]]
    /\ modeLineLoop = FALSE
    /\ InitTextures
    /\ InitDescriptors
    /\ InitExplicitIbo
    /\ InitBinary

\* index arrays of one to MaxIndexCount indices
IndexArrays(type) ==
    UNION {[1..n -> IndexValues(type)] : n \in 1..MaxIndexCount}

InitIndex ==
    /\ \E r \in {Reflection(1, <<GL_FLOAT>>)} :
          /\ InitLinked(r)
          /\ program = LinkedProgram(r).p
    /\ genericVertAttribs = [l \in Locations |-> [buffer |-> 1, stride |-> 12]]
    /\ modeLineLoop = FALSE
    /\ InitTextures
    /\ InitDescriptors
    /\ InitExplicitIbo
    /\ InitBinary

\* indexed draws; an input that the call does not read has one value
PrepareIndexBufferObjectStep ==
    \E type \in IndexTypes, bound \in BOOLEAN, lineLoop \in BOOLEAN :
      \E values \in IndexArrays(type), boundOffset \in {0, 2},
         convertOk \in BOOLEAN, allocOk \in BOOLEAN, allocOk2 \in BOOLEAN,
         garbage \in {0, 255} :
        /\ ~bound => boundOffset = 0
        /\ type # GL_UNSIGNED_BYTE => convertOk
        /\ ~FirstAllocation(type, bound, convertOk) => allocOk
        /\ ~lineLoop => allocOk2 /\ garbage = 0
        /\ PrepareIndexBufferObject(type, values, bound, boundOffset, lineLoop,
                                    convertOk, allocOk, allocOk2, garbage)

\* the program is drawn with until it is destroyed
NextIndex ==
    /\ ret.op # "~ShaderProgram"
    /\ \/ PrepareIndexBufferObjectStep
       \/ ~indexDraw.crashed /\ ShaderProgramDestructor

SpecIndex == InitIndex /\ [][NextIndex]_vars

\* the SPIR-V of the two compiled stages
StageWords == {<<>>, <<SpirvMagic>>}

\* what the compiler reflected last when a new program object is made
OtherReflections == {Reflection(0, <<>>), Reflection(1, <<GL_FLOAT>>)}

InitBinaryProgram ==
    /\ \E vs \in StageWords, fs \in StageWords : InitCompiled(<<vs, fs>>)
    /\ \E r \in {Reflection(1, <<>>), Reflection(1, <<GL_FLOAT>>),
                 Reflection(2, <<GL_FLOAT, GL_SAMPLER_2D>>)} :
          /\ LinkedOnce(r)
          /\ program = LinkedProgram(r).p
    /\ genericVertAttribs = [l \in Locations |-> [buffer |-> NullPtr, stride |-> 0]]
    /\ modeLineLoop = FALSE
    /\ InitTextures
    /\ InitDescriptors
    /\ InitExplicitIbo
    /\ InitBinary

\* what the compiler answers when a program is linked again
RelinkAnswers == {c \in CompilerAnswers : c.reflection \in OtherReflections}

\* a linked program is drawn with, linked again, its binary is read, and the
\* binary is loaded into a program object made afterwards; a program object
\* that was destroyed is followed by a new one
NextBinary ==
    /\ binaryOf.load # "crashed"
    /\ \/ ret.op # "~ShaderProgram" /\ SetShaderModules
       \/ ret.op # "~ShaderProgram" /\ GetVkPipelineCache
       \/ ret.op # "~ShaderProgram" /\ GetBinaryData
       \/ \E r \in OtherReflections : NewShaderProgram(r)
       \/ ret.op # "~ShaderProgram" /\ \E s \in 1..2 : AttachShader(1, s)
       \/ ret.op # "~ShaderProgram" /\ \E c \in RelinkAnswers : LinkProgram(c)
       \/ ret.op # "~ShaderProgram" /\ \E garbage \in {0, 255} : UsePrecompiledBinary(garbage)
       \/ ret.op # "~ShaderProgram" /\ ShaderProgramDestructor

SpecBinary == InitBinaryProgram /\ [][NextBinary]_vars

\* uniform writes, texture binds and attachments between descriptor updates
NextDescriptor ==
    \/ \E unit \in TextureUnits, t \in Textures : BindTexture(unit, t)
    \/ \E f \in DOMAIN mFramebuffers, t \in {NullPtr} \cup Textures :
            FramebufferTexture2D(f, t)
    \/ \E location \in 1..2, value \in UniformValues : SetUniformData(location, value)
    \/ \E location \in 1..2, textureUnit \in TextureUnits :
            SetUniformSampler(location, textureUnit)
    \/ \E allocatedNewBufferObject \in BOOLEAN, copyCompleted \in BOOLEAN :
            UpdateDescriptorSet(allocatedNewBufferObject, copyCompleted)

SpecDescriptor == InitDescriptor /\ [][NextDescriptor]_vars

DepthRanges == {0, 1}

\* uniform writes and depth-range changes between descriptor updates
NextUniform ==
    \/ \E location \in 1..2, value \in UniformValues : SetUniformData(location, value)
    \/ \E location \in 1..2, textureUnit \in TextureUnits :
            SetUniformSampler(location, textureUnit)
    \/ \E minDepthRange \in DepthRanges, maxDepthRange \in DepthRanges :
       \E l \in DepthRangeLocations(program) :
            UpdateBuiltInUniformData(minDepthRange, maxDepthRange, l)
    \/ \E allocatedNewBufferObject \in BOOLEAN, copyCompleted \in BOOLEAN :
            UpdateDescriptorSet(allocatedNewBufferObject, copyCompleted)

SpecUniform == InitDescriptor /\ [][NextUniform]_vars

\* programs whose live uniforms are fields of gl_DepthRange: one or two of them
DepthRangeReflections == {Reflection(1, <<GL_FLOAT>>), Reflection(1, <<GL_FLOAT, GL_FLOAT>>)}

\* such a program, linked once
InitDepthRange ==
    /\ \E r \in DepthRangeReflections :
            /\ InitLinked(r)
            /\ program = LinkedProgram(r).p
    /\ genericVertAttribs = [l \in Locations |-> [buffer |-> NullPtr, stride |-> 0]]
    /\ modeLineLoop = FALSE
    /\ InitTextures
    /\ InitDescriptors
    /\ InitExplicitIbo
    /\ InitBinary

\* depth-range changes, and relinks after the shaders were edited
NextDepthRange ==
    \/ \E minDepthRange \in DepthRanges, maxDepthRange \in DepthRanges :
       \E l \in DepthRangeLocations(program) :
            UpdateBuiltInUniformData(minDepthRange, maxDepthRange, l)
    \/ \E a \in CompilerAnswers, r \in DepthRangeReflections :
            LinkProgram([a EXCEPT !.reflection = r])

SpecDepthRange == InitDepthRange /\ [][NextDepthRange]_vars

\* textures that change, are bound and attached between descriptor updates
NextSampler ==
    \/ \E t \in Textures, completed \in BOOLEAN, npot \in BOOLEAN :
            TexImage(t, completed, npot)
    \/ \E unit \in TextureUnits, t \in Textures : BindTexture(unit, t)
    \/ \E f \in DOMAIN mFramebuffers, t \in {NullPtr} \cup Textures :
            FramebufferTexture2D(f, t)
    \/ \E f \in {0} \cup DOMAIN mFramebuffers : BindFramebuffer(f)
    \/ \E allocatedNewBufferObject \in BOOLEAN, copyCompleted \in BOOLEAN :
            UpdateDescriptorSet(allocatedNewBufferObject, copyCompleted)

SpecSampler == InitDescriptor /\ [][NextSampler]_vars

(***************************************************************************)
(* Specification of descriptor updates of a program that was linked from   *)
(* shaders without uniforms: it has no live uniform block                  *)
(***************************************************************************)
InitNoBlocks ==
    /\ InitLinked(Reflection(1, <<>>))
    /\ program = LinkedProgram(Reflection(1, <<>>)).p
    /\ genericVertAttribs = [l \in Locations |-> [buffer |-> NullPtr, stride |-> 0]]
    /\ modeLineLoop = FALSE
    /\ InitTextures
    /\ InitDescriptors
    /\ InitExplicitIbo
    /\ InitBinary

NextNoBlocks ==
    \/ \E unit \in TextureUnits, t \in Textures : BindTexture(unit, t)
    \/ \E f \in DOMAIN mFramebuffers, t \in {NullPtr} \cup Textures :
            FramebufferTexture2D(f, t)
    \/ \E allocatedNewBufferObject \in BOOLEAN, copyCompleted \in BOOLEAN :
            UpdateDescriptorSet(allocatedNewBufferObject, copyCompleted)

SpecNoBlocks == InitNoBlocks /\ [][NextNoBlocks]_vars

(***************************************************************************)
(* Specification of the framebuffer objects: textures and renderbuffers    *)
(* are attached and detached, and reallocated ones are reported            *)
(***************************************************************************)
\* framebuffer objects without attachments; whether one counts as updated
\* is left open
InitFramebuffers ==
    /\ InitLinked(Reflection(1, <<GL_FLOAT>>))
    /\ program = LinkedProgram(Reflection(1, <<GL_FLOAT>>)).p
    /\ genericVertAttribs = [l \in Locations |-> [buffer |-> NullPtr, stride |-> 0]]
    /\ modeLineLoop = FALSE
    /\ mTextures = [t \in 1..NumTextures |-> [completed |-> TRUE, npot |-> TRUE]]
    /\ activeTexture = [u \in 0..(NumUnits - 1) |-> 1]
    /\ \E updated \in [Framebuffers -> BOOLEAN] :
            mFramebuffers = [f \in Framebuffers |-> NoAttachments(updated[f])]
    /\ boundFramebuffer = 0
    /\ InitDescriptors
    /\ InitExplicitIbo
    /\ InitBinary

NextFramebuffers ==
    \/ \E f \in Framebuffers, point \in AttachmentPoints, type \in AttachmentTypes,
          name \in {0} \cup AttachmentNames :
            FramebufferAttachment(f, point, type, name)
    \/ \E index \in 0..(NumAttachmentNames + 1), target \in AttachmentTypes :
            UpdateFramebufferObjects(index, target)

SpecFramebuffers == InitFramebuffers /\ [][NextFramebuffers]_vars
(***************************************************************************)
(* C2                                                                      *)
(***************************************************************************)
\* the shader is found by a lookup of its shading ID
ShaderLookup(s) ==
    \E id \in DOMAIN mShadingObjectPool :
        IsShadingObject(id, SHADER_ID) /\ mShadingObjectPool[id].arrayIndex = s

PendingShader(s) == s \in mPurgeListShaders /\ shRef[s] > 0

StagesAttachedCompiled ==
    /\ mShaders[1][1] # NullPtr /\ mShaders[1][2] # NullPtr
    /\ shCompiled[mShaders[1][1]] /\ shCompiled[mShaders[1][2]]

\* the attribute and uniform counts of a reflection are within the limits
WithinLimits(r) ==
    /\ Len(r.attributes) <= GLOVE_MAX_VERTEX_ATTRIBS
    /\ Len(r.uniforms) <= GLOVE_MAX_VERTEX_UNIFORM_VECTORS
    /\ Len(r.uniforms) <= GLOVE_MAX_FRAGMENT_UNIFORM_VECTORS

\* C1 (as claimed): LinkProgram returns success if and only if a vertex and a
\* fragment shader are attached, both are compiled, and the post-link attribute
\* and uniform counts are within the configured limits.
C1_LinkIffStagesAndLimits ==
    [][\A c \in CompilerAnswers :
        LinkProgram(c) =>
            (ret'.value <=> StagesAttachedCompiled /\ WithinLimits(c.reflection))]_vars

\* C1 (amended): LinkProgram returns success if and only if a vertex and a
\* fragment shader are attached, both are compiled, the compiler's program
\* validation, the preprocessing of both stages and the external link succeed,
\* and the post-link attribute and uniform counts are within the limits.
C1_LinkIffCompilerAndLimits ==
    [][\A c \in CompilerAnswers :
        LinkProgram(c) =>
            (ret'.value <=> /\ StagesAttachedCompiled
                            /\ AllSucceed(c)
                            /\ WithinLimits(c.reflection))]_vars

\* C1 witness: a link has succeeded
C1_Witness ==
    /\ ret = [op |-> "LinkProgram", value |-> TRUE]
    /\ program.mLinked /\ StagesAttachedCompiled /\ WithinLimits(program.sri)

\* the vertex-input state of the program
VertexInputState(p) ==
    <<p.mActiveVertexVkBuffersCount, p.mActiveVertexVkBuffers,
      p.vertexBindingDescriptionCount, p.vertexAttributeDescriptionCount,
      p.mVkVertexInputBinding, p.mVkVertexInputAttribute>>

\* the descriptor handles the program holds
DescriptorHandles(p) ==
    <<p.mVkDescSetLayout, p.mVkDescPool, p.mVkDescSet, p.mVkPipelineLayout>>

\* C8: LinkProgram on a program whose vertex or fragment slot is empty or holds
\* an uncompiled shader returns failure with linked = false, calls no compiler
\* operation and changes neither the vertex-input state, the reflection
\* interface nor the descriptor objects.
C8_NotReadyFailsAtOnce ==
    [][\A c \in CompilerAnswers :
        LinkProgram(c) /\ ~StagesAttachedCompiled =>
            /\ ret'.value = FALSE /\ ~program'.mLinked
            /\ calls' = <<>>
            /\ compilerReflection' = compilerReflection
            /\ VertexInputState(program') = VertexInputState(program)
            /\ program'.sri = program.sri
            /\ DescriptorHandles(program') = DescriptorHandles(program)
            /\ vkObjects' = vkObjects]_vars

\* C8 witness: a link of a program that had been linked failed at once because a
\* stage is missing or not compiled
C8_Witness ==
    /\ ret = [op |-> "LinkProgram", value |-> FALSE]
    /\ ~StagesAttachedCompiled /\ calls = <<>>
    /\ program.mVkDescSet # VK_NULL_HANDLE /\ ~program.mLinked

\* C9: when validation, preprocessing and the external link succeed but the
\* uniform or attribute count exceeds a limit, LinkProgram returns failure and
\* the linked flag is false.
C9_LimitViolationFails ==
    [][\A c \in CompilerAnswers :
        LinkProgram(c) /\ StagesAttachedCompiled /\ AllSucceed(c)
                       /\ ~WithinLimits(c.reflection) =>
            ret'.value = FALSE /\ ~program'.mLinked]_vars

\* C9 witness: a link failed after the external link succeeded and the resource
\* interface was built, with more attributes than the limit allows
C9_Witness ==
    /\ ret = [op |-> "LinkProgram", value |-> FALSE] /\ ~program.mLinked
    /\ \E i \in 1..Len(calls) : calls[i] = "vkCreatePipelineLayout"
    /\ Len(program.sri.attributes) > GLOVE_MAX_VERTEX_ATTRIBS

\* the non-null descriptor handles a program holds
Held(p) ==
    {p.mVkDescSetLayout, p.mVkDescPool, p.mVkDescSet, p.mVkPipelineLayout}
        \ {VK_NULL_HANDLE}

\* the step destroyed every native object held before it, and every handle and
\* the reflection interface held after it were created by the step
Discarded ==
    /\ \A h \in Held(program) : ~vkObjects'[h].live
    /\ \A h \in Held(program') : h > Len(vkObjects) /\ vkObjects'[h].live
    /\ program'.sri.stamp > Len(vkObjects)

OccupiedSlots ==
    UNION { {a.location + j : j \in 0..(a.occupied - 1)} :
                a \in {program.sri.attributes[i] : i \in DOMAIN program.sri.attributes} }

\* the binding index the vertex-input state p gives to attribute slot l
BindingOf(p, l) ==
    LET c == CHOOSE c \in 1..p.vertexAttributeDescriptionCount :
                    p.mVkVertexInputAttribute[c].location = l
    IN p.mVkVertexInputAttribute[c].binding

\* this step is a draw that produced a vertex-input state
ProducedVertexInput ==
    /\ ret'.op = "PrepareVertexAttribBufferObjects"
    /\ ret'.value
    /\ genericVertAttribs' = genericVertAttribs

\* slots share a binding exactly when they have the same buffer and stride,
\* and there are as many bindings as distinct (buffer, stride) pairs
GroupedByBufferAndStride ==
    /\ \A l1, l2 \in OccupiedSlots :
            BindingOf(program', l1) = BindingOf(program', l2)
                <=> genericVertAttribs[l1] = genericVertAttribs[l2]
    /\ program'.vertexBindingDescriptionCount
            = Cardinality({genericVertAttribs[l] : l \in OccupiedSlots})
    /\ program'.mActiveVertexVkBuffersCount
            = Cardinality({genericVertAttribs[l] : l \in OccupiedSlots})

\* every occupied slot has a binding of its own
OneBindingPerSlot ==
    /\ \A l1, l2 \in OccupiedSlots :
            BindingOf(program', l1) = BindingOf(program', l2) <=> l1 = l2
    /\ program'.vertexBindingDescriptionCount = Cardinality(OccupiedSlots)
    /\ program'.mActiveVertexVkBuffersCount = Cardinality(OccupiedSlots)

\* C3 as stated: in the vertex-input state produced for a draw, two occupied
\* attribute slots receive the same binding index if and only if they have
\* the same backing buffer and the same stride, and the number of bindings
\* equals the number of distinct (buffer, stride) pairs.
C3_BindingIffSameBufferStride ==
    [][ProducedVertexInput => GroupedByBufferAndStride]_vars

\* C3 amended: the grouping by (buffer, stride) holds for every draw that does
\* not take the line-loop copy path; a draw in line-loop mode without an
\* active index buffer gives every occupied slot a buffer and a binding of
\* its own, whatever buffer and stride the slots share.
C3_BindingIffSameBufferStrideUnlessCopied ==
    [][ProducedVertexInput =>
            IF CopyPath(program, modeLineLoop')
            THEN OneBindingPerSlot
            ELSE GroupedByBufferAndStride]_vars

\* C3 witness: A(X,12), B(X,12), C(X,16) drawn outside line-loop mode gave two
\* bindings, A and B sharing one
C3_Witness ==
    /\ ret.op = "PrepareVertexAttribBufferObjects" /\ ret.value
    /\ ~modeLineLoop
    /\ OccupiedSlots = {0, 1, 2}
    /\ genericVertAttribs[0] = [buffer |-> 1, stride |-> 12]
    /\ genericVertAttribs[1] = [buffer |-> 1, stride |-> 12]
    /\ genericVertAttribs[2] = [buffer |-> 1, stride |-> 16]
    /\ program.vertexBindingDescriptionCount = 2
    /\ program.mActiveVertexVkBuffersCount = 2
    /\ BindingOf(program, 0) = BindingOf(program, 1)
    /\ BindingOf(program, 0) # BindingOf(program, 2)

(***************************************************************************)
(* C4                                                                      *)
(***************************************************************************)
\* native batched descriptor writes the last operation issued
NativeDescriptorWrites ==
    Len(SelectSeq(calls, LAMBDA c : c = "vkUpdateDescriptorSets"))

UniformWrites == {"SetUniformData", "SetUniformSampler"}

\* the last operation was an UpdateDescriptorSet of a program with a uniform
\* block, not the first since the link, and uniform writes came before it
SecondUpdateAfterWrites ==
    /\ ret.op = "UpdateDescriptorSet"
    /\ program.mLinked
    /\ Len(program.sri.blocks) > 0
    /\ lastUpdate.nth >= 2
    /\ lastUpdate.writes \cap UniformWrites # {}

\* a sampler uniform reads a texture that is the color attachment of a framebuffer
SamplerReadsAttached ==
    \E i \in 1..Len(program.sri.uniforms) :
        /\ IsSampler(program.sri.uniforms[i])
        /\ IsTextureAttachedToFBO(mFramebuffers, ActiveTextureOf(program, activeTexture, i))

\* C4 as stated: on a linked program with a uniform block, after any non-empty
\* sequence of uniform writes between two consecutive UpdateDescriptorSet
\* calls the second call issues exactly one native batched descriptor write.
C4_ExactlyOneBatchedWrite ==
    SecondUpdateAfterWrites => NativeDescriptorWrites = 1

\* C4 amended: the second call issues one native batched descriptor write when
\* a sampler was written or a texture bound since the first call, when the
\* flush of the uniform data allocated a new buffer object, or when a sampler
\* reads a texture attached to a framebuffer; otherwise, after writes made
\* with SetUniformData alone, it issues none.  It never issues more than one.
C4_OneBatchedWriteWhenDirty ==
    SecondUpdateAfterWrites =>
        NativeDescriptorWrites =
            IF \/ "SetUniformSampler" \in lastUpdate.writes
               \/ "BindTexture" \in lastUpdate.writes
               \/ lastUpdate.allocatedNewBufferObject
               \/ SamplerReadsAttached
            THEN 1 ELSE 0

\* C4 witness: data and sampler writes came before the second update, which
\* issued one batched write
C4_Witness ==
    /\ SecondUpdateAfterWrites
    /\ UniformWrites \subseteq lastUpdate.writes
    /\ NativeDescriptorWrites = 1

(***************************************************************************)
(* C7                                                                      *)
(***************************************************************************)
\* texture t is the color attachment of the framebuffer drawn to
IsCurrentColorAttachment(t) ==
    /\ boundFramebuffer \in DOMAIN mFramebuffers
    /\ mFramebuffers[boundFramebuffer].colorType = GL_TEXTURE
    /\ mFramebuffers[boundFramebuffer].colorTexture = t

\* the descriptor the set holds for sampler uniform i
SamplerDescriptor(i) == descriptorSet[program.sri.uniforms[i].blockIndex]

\* the last operation was a descriptor update that resolved the samplers
ResolvedSamplers ==
    /\ ret.op = "UpdateDescriptorSet"
    /\ NativeDescriptorWrites = 1

\* the descriptor of sampler uniform i refers to a texture made by the update
ReadsNewCopy(i) ==
    /\ SamplerDescriptor(i).image \notin Textures
    /\ SamplerDescriptor(i).image # ActiveTextureOf(program, activeTexture, i)
    /\ \E k \in 1..Len(calls) : calls[k] = "new Texture"

Samplable(t) == mTextures[t].completed /\ mTextures[t].npot

\* C7 as stated: whenever a descriptor update resolves a sampler uniform whose
\* bound texture is the current framebuffer's color attachment, the image
\* descriptor written refers to a newly created copy, never to the image of
\* the render target itself.
C7_AttachedTextureReadThroughCopy ==
    ResolvedSamplers =>
        \A i \in 1..Len(program.sri.uniforms) :
            (/\ IsSampler(program.sri.uniforms[i])
             /\ IsCurrentColorAttachment(ActiveTextureOf(program, activeTexture, i)))
                => ReadsNewCopy(i)

\* C7 amended: the copy is made when the bound texture is complete and passes
\* the non-power-of-two access rule; a texture that is not gets the place
\* holder contents and its own image is written, also when it is the current
\* framebuffer's color attachment.  An update made while a sampler reads an
\* attached texture always resolves the samplers.
C7_CompleteAttachedTextureReadThroughCopy ==
    /\ ResolvedSamplers =>
        \A i \in 1..Len(program.sri.uniforms) :
            IsSampler(program.sri.uniforms[i]) =>
                LET t == ActiveTextureOf(program, activeTexture, i) IN
                /\ (Samplable(t) /\ IsCurrentColorAttachment(t)) => ReadsNewCopy(i)
                /\ ~Samplable(t) => SamplerDescriptor(i).image = t
    /\ (ret.op = "UpdateDescriptorSet" /\ SamplerReadsAttached) => ResolvedSamplers

\* C7 witness: a complete texture, color attachment of the framebuffer drawn
\* to, was resolved to a copy
C7_Witness ==
    /\ ResolvedSamplers
    /\ \E i \in 1..Len(program.sri.uniforms) :
        /\ IsSampler(program.sri.uniforms[i])
        /\ Samplable(ActiveTextureOf(program, activeTexture, i))
        /\ IsCurrentColorAttachment(ActiveTextureOf(program, activeTexture, i))
        /\ ReadsNewCopy(i)
        /\ SamplerDescriptor(i).how = "copy"

(***************************************************************************)
(* Index preparation.  In line-loop mode the count the draw passes         *)
(* includes the closing index (the code reads indexCount - 1 elements and  *)
(* writes the first one again at position indexCount - 1), so the indices  *)
(* the draw references are the first indexCount - 1 of the array.          *)
(***************************************************************************)
ReferencedIndices ==
    IF indexDraw.lineLoop
    THEN SubSeq(indexDraw.values, 1, indexDraw.indexCount - 1)
    ELSE indexDraw.values

\* the last call was an unsigned-byte PrepareIndexBufferObject, all its
\* conversion and allocation steps went through and it handed a buffer to
\* the draw
UnsignedBytePrepared ==
    /\ ret.op = "PrepareIndexBufferObject"
    /\ indexDraw.type = GL_UNSIGNED_BYTE
    /\ ~indexDraw.failed
    /\ indexDraw.written
    /\ ReferencedIndices # <<>>

PassedExplicitBuffer ==
    /\ program.mExplicitIbo # NullPtr
    /\ indexDraw.ibo.handle = program.mExplicitIbo
    /\ program.mActiveIndexVkBuffer = ExplicitVkBuffer(program.mExplicitIbo)

CompilerWork ==
    {"ValidateProgram", "PrepareReflection", "PreprocessShader(VERTEX)",
     "PreprocessShader(FRAGMENT)", "LinkProgram", "CompileShader"}

\* the binary was loaded into a program object on which nothing else had
\* been called since its construction
LoadedIntoFreshProgram ==
    /\ ret.op = "UsePrecompiledBinary"
    /\ binaryOf.fresh

\* the load went through and the program reports what the writer reported
RoundTrips ==
    /\ binaryOf.load = "completed"
    /\ program.mLinked
    /\ LiveReflection(program) = binaryOf.reflection
    /\ \A i \in 1..Len(calls) : calls[i] \notin CompilerWork

\* C6: the bytes GetBinaryData wrote for a linked program, loaded with
\* UsePrecompiledBinary into a fresh program, give a linked program with
\* the same live attributes and uniforms, without compiler work.
C6_BinaryRoundTrip == LoadedIntoFreshProgram => RoundTrips

\* the load into a program that has both stage slots filled
C6_RoundTripWithBothStages ==
    (ret.op = "UsePrecompiledBinary" /\ mShaders[1][1] # NullPtr /\ mShaders[1][2] # NullPtr)
        => RoundTrips

(***************************************************************************)
(* The shading namespace                                                   *)
(***************************************************************************)
\* the IDs under which the pool holds an object of the kind at the array slot
IdsOf(type, arrayIndex) ==
    {id \in DOMAIN mShadingObjectPool :
        mShadingObjectPool[id].type = type /\ mShadingObjectPool[id].arrayIndex = arrayIndex}

\* the IDs a step added to the pool
HandedOut == DOMAIN mShadingObjectPool' \ DOMAIN mShadingObjectPool

\* C11: ID 0 is never returned by PushShadingObject and never reported by
\* IsShadingObject; the IDs returned are 1, 2, 3, ... in this order; every
\* shader or program that is allocated (those awaiting the purge included)
\* has one ID of its own, and an ID handed out is above every ID handed out
\* before, so none is handed out again.
C11_IdsIncreaseNeverReused ==
    /\ [](/\ mShadingObjectCount >= 1
          /\ \A id \in DOMAIN mShadingObjectPool : 1 <= id /\ id < mShadingObjectCount
          /\ ~IsShadingObject(0, SHADER_ID) /\ ~IsShadingObject(0, SHADER_PROGRAM_ID)
          /\ \A s \in Shaders :
                Cardinality(IdsOf(SHADER_ID, s)) = IF shState[s] = "live" THEN 1 ELSE 0
          /\ \A p \in Programs :
                Cardinality(IdsOf(SHADER_PROGRAM_ID, p)) = IF prState[p] = "live" THEN 1 ELSE 0)
    /\ [][/\ mShadingObjectCount' >= mShadingObjectCount
          /\ HandedOut # {} \/ mShadingObjectCount' # mShadingObjectCount =>
                /\ HandedOut = {mShadingObjectCount}
                /\ mShadingObjectCount' = mShadingObjectCount + 1]_vars

\* the first ID was erased by a sweep, a third was handed out afterwards, and
\* the object with the second ID awaits the purge
C11_Witness ==
    /\ mShadingObjectCount = 4
    /\ DOMAIN mShadingObjectPool = {2, 3}
    /\ \E s \in mPurgeListShaders : IdsOf(SHADER_ID, s) = {2}
    /\ \E s \in Shaders : shState[s] = "freed"

(***************************************************************************)
(* The sweep                                                               *)
(***************************************************************************)
\* a sweep of one list: the entries for which the predicate holds leave the
\* list and are deallocated, the others stay listed, and whatever else was
\* allocated stays allocated
SweepsExactly(list, listAfter, state, stateAfter, Free(_)) ==
    /\ listAfter = {o \in list : ~Free(o)}
    /\ \A o \in DOMAIN state :
          stateAfter[o] = IF o \in list /\ Free(o) THEN "freed" ELSE state[o]

\* C12: CleanPurgeList frees and unlists exactly the entries of each of the
\* five purge lists whose predicate holds when the entry is examined
\* (reference count 0 for buffers, textures and renderbuffers,
\* FreeForDeletion for programs and for shaders, the shaders being examined
\* after the programs were swept); the other entries stay listed and
\* allocated, and nothing outside the lists is deallocated.
C12_SweepFreesExactlyTheFree ==
    [][CleanPurgeList =>
        /\ \A kind \in ObjectKinds :
              SweepsExactly(ObjectsOf(kind).purge, ObjectsOf(kind).purge',
                            ObjectsOf(kind).state, ObjectsOf(kind).state',
                            LAMBDA o : ObjectsOf(kind).ref[o] = 0)
        /\ SweepsExactly(mPurgeListShaderPrograms, mPurgeListShaderPrograms',
                         prState, prState',
                         LAMBDA p : FreeForDeletion(prMark[p], prRef[p]))
        /\ SweepsExactly(mPurgeListShaders, mPurgeListShaders', shState, shState',
                         LAMBDA s : FreeForDeletion(shMark[s], shRef'[s]))]_vars

\* sweeps have run that freed a buffer and the program, and a shader and a
\* texture with a reference still held were examined and are still listed
C12_Witness ==
    /\ \E b \in DOMAIN boState : boState[b] = "freed"
    /\ \E p \in Programs : prState[p] = "freed"
    /\ \E s \in mPurgeListShaders : shSurvived[s] /\ shRef[s] > 0 /\ shState[s] = "live"
    /\ \E t \in mPurgeListTexture : texRef[t] > 0 /\ texState[t] = "live"
    /\ \E r \in DOMAIN rbState : rbState[r] = "live" /\ r \notin mPurgeListRenderbuffers

(***************************************************************************)
(* The order in which ReleaseVkObjects destroys                            *)
(***************************************************************************)
DestroyCalls ==
    {"vkFreeDescriptorSets", "vkDestroyDescriptorPool",
     "vkDestroyDescriptorSetLayout", "vkDestroyPipelineLayout"}

\* the native calls of the last operation that destroy, in the order made
Destroyed == SelectSeq(calls, LAMBDA c : c \in DestroyCalls)

\* the destroying calls were made in the order the sequence gives
DestroyedInOrder(order) ==
    \A i, j \in 1..Len(Destroyed) :
        i < j => \E a, b \in 1..Len(order) :
                    a < b /\ order[a] = Destroyed[i] /\ order[b] = Destroyed[j]

\* C13 as stated: the descriptor set is destroyed first, then the pool, then
\* the descriptor-set layout, then the pipeline layout.
C13_SetPoolLayoutPipelineLayout ==
    DestroyedInOrder(<<"vkFreeDescriptorSets", "vkDestroyDescriptorPool",
                       "vkDestroyDescriptorSetLayout", "vkDestroyPipelineLayout">>)

\* C13 as the code has it: the pipeline layout is destroyed first, then the
\* descriptor-set layout, then the descriptor set is freed, then its pool is
\* destroyed; no later object of this order goes before an earlier one.
C13_PipelineLayoutLayoutSetPool ==
    DestroyedInOrder(<<"vkDestroyPipelineLayout", "vkDestroyDescriptorSetLayout",
                       "vkFreeDescriptorSets", "vkDestroyDescriptorPool">>)

\* an operation released all four objects
C13_Witness == Len(Destroyed) = 4

(***************************************************************************)
(* UpdateDescriptorSet without uniform blocks                              *)
(***************************************************************************)
UpdateDescriptorSetStep ==
    \E allocatedNewBufferObject \in BOOLEAN, copyCompleted \in BOOLEAN :
        UpdateDescriptorSet(allocatedNewBufferObject, copyCompleted)

\* the dirty flags and the descriptor handles are what they were, no flush
\* and no native write was made, the descriptor set has the same content
NothingTouched ==
    /\ program' = program
    /\ vkObjects' = vkObjects
    /\ descriptorSet' = descriptorSet
    /\ \A i \in 1..Len(calls') :
          calls'[i] \notin {"UpdateUniformBufferData", "vkUpdateDescriptorSets"}

UpdateWithNothingNamedChanged ==
    /\ ret.op = "UpdateDescriptorSet"
    /\ Len(program.sri.blocks) > 0
    /\ "SetUniformSampler" \notin lastUpdate.writes
    /\ ~lastUpdate.allocatedNewBufferObject
    /\ ~SamplerReadsAttached

\* C15 as stated: when no SetUniformSampler was called, the flush allocated
\* no new buffer object and no texture bound to a sampler uniform is attached
\* to a framebuffer, UpdateDescriptorSet makes no native descriptor write.
C15_NoWriteUnlessChanged ==
    UpdateWithNothingNamedChanged => NativeDescriptorWrites = 0

\* C15 amended: the same, for an update that is not the first since the
\* program was linked and before which no texture was bound either; the
\* first update after a link and an update after glBindTexture do write.
C15_NoWriteUnlessMarked ==
    /\ UpdateWithNothingNamedChanged /\ lastUpdate.nth >= 2
            /\ "BindTexture" \notin lastUpdate.writes
        => NativeDescriptorWrites = 0
    /\ UpdateWithNothingNamedChanged /\ (lastUpdate.nth = 1 \/ "BindTexture" \in lastUpdate.writes)
        => NativeDescriptorWrites = 1

\* a later update that followed SetUniformData alone: the data was flushed
\* and no native write made
C15_Witness ==
    /\ UpdateWithNothingNamedChanged
    /\ lastUpdate.nth >= 2
    /\ lastUpdate.writes = {"SetUniformData"}
    /\ calls = <<"UpdateUniformBufferData">>

(***************************************************************************)
(* The length of the program binary                                        *)
(***************************************************************************)
\* GetBinaryData was the last operation: the program is in the state it read
BinaryRead == ret.op = "GetBinaryData" /\ program.mLinked

\* reflection length + 2 x sizeof(uint32) + the SPIR-V bytes of both stages
\* + the bytes of the pipeline cache's data
TotalLength ==
    ReflectionBytes(compilerReflection) + 2 * 4
        + 4 * (Len(binaryOf.spv[1]) + Len(binaryOf.spv[2]))
        + (IF program.mPipelineCache.handle # VK_NULL_HANDLE
           THEN 4 * Len(program.mPipelineCache.data) ELSE 0)

\* C16: for a linked program the binary length is the reflection length, two
\* 32-bit sizes, the SPIR-V bytes of both stages and the pipeline-cache
\* bytes, and GetBinaryData reports the size GetBinaryLength returns in the
\* same state, also when there is no native pipeline cache yet.
C16_ReportedSizeIsBinaryLength ==
    BinaryRead =>
        /\ GetBinaryLength(program) = TotalLength
        /\ binarySize = GetBinaryLength(program)

\* C16 with a native pipeline cache: both sizes are the total length.
C16_SizesAgreeWithPipelineCache ==
    BinaryRead /\ program.mPipelineCache.handle # VK_NULL_HANDLE =>
        /\ GetBinaryLength(program) = TotalLength
        /\ binarySize = GetBinaryLength(program)
        /\ 4 * Len(binary) = binarySize

\* C16 without a native pipeline cache: GetBinaryLength returns the length of
\* the reflection and SPIR-V that GetBinaryData wrote, GetBinaryData reports 0.
C16_SizesWithoutPipelineCache ==
    BinaryRead /\ program.mPipelineCache.handle = VK_NULL_HANDLE =>
        /\ GetBinaryLength(program) = TotalLength
        /\ GetBinaryLength(program) = 4 * Len(binary)
        /\ binarySize = 0

(***************************************************************************)
(* The explicit index buffer and the cache                                 *)
(***************************************************************************)
CountOf(seq, name) == Len(SelectSeq(seq, LAMBDA c : c = name))

\* the buffers that were the program's explicit buffer in the course of an
\* operation with these allocations, the last of them excepted: the one it
\* had before, if any, and the ones allocated but the last
Retired(before, allocations) ==
    LET h1 == NewIndexBufferObject(explicitIbo.handle)
    IN (IF before # NullPtr /\ allocations >= 1 THEN <<before>> ELSE <<>>)
           \o (IF allocations >= 2 THEN <<h1>> ELSE <<>>)

\* C17: the program has one pointer to its explicit index buffer, so at most
\* one is current; every allocation of a new one passes the one current
\* until then to CacheVBO once and deletes nothing; a buffer passed to the
\* cache is not the current one afterwards, and the only buffer the program
\* deletes, in its destructor, is the current one, which was not cached.
C17_PreviousBufferCachedOnce ==
    /\ [](explicitIbo.handle = program.mExplicitIbo)
    /\ [][ret'.op = "PrepareIndexBufferObject" =>
            LET cached == indexDraw'.cached
                allocations == CountOf(calls', "new IndexBufferObject")
            IN /\ cached = Retired(program.mExplicitIbo, allocations)
               /\ CountOf(calls', "CacheVBO") = Len(cached)
               /\ \A i, j \in 1..Len(cached) : i # j => cached[i] # cached[j]
               /\ \A i \in 1..Len(cached) : cached[i] # program'.mExplicitIbo
               /\ CountOf(calls', "delete mExplicitIbo") = 0]_vars
    /\ [][ret'.op = "~ShaderProgram" =>
            /\ CountOf(calls', "delete mExplicitIbo") =
                    IF program.mExplicitIbo # NullPtr THEN 1 ELSE 0
            /\ \A i \in 1..Len(indexDraw.cached) :
                    indexDraw.cached[i] # program.mExplicitIbo
            /\ program'.mExplicitIbo = NullPtr]_vars

\* the program held an explicit buffer, a line-loop preparation allocated
\* twice and retired two buffers, and then the program was destroyed
C17_Witness ==
    /\ ret.op = "~ShaderProgram"
    /\ Len(indexDraw.cached) = 2
    /\ calls[Len(calls)] = "delete mExplicitIbo"

(***************************************************************************)
(* The order of the binding indices                                        *)
(***************************************************************************)
\* the last operation was a PrepareVertexAttribBufferObjects that regenerated
Regenerated == ret.op = "PrepareVertexAttribBufferObjects" /\ ret.value

\* the binding indices in use
BindingIndices ==
    {program.mVkVertexInputAttribute[c].binding :
        c \in 1..program.vertexAttributeDescriptionCount}

\* the position, in the order of the visit, of the first slot with binding b
FirstSeen(b) ==
    CHOOSE c \in 1..program.vertexAttributeDescriptionCount :
        /\ program.mVkVertexInputAttribute[c].binding = b
        /\ \A d \in 1..(c - 1) : program.mVkVertexInputAttribute[d].binding # b

\* the (buffer, stride) pair that has binding b
PairOfBinding(b) ==
    <<program.mActiveVertexVkBuffers[b + 1], program.mVkVertexInputBinding[b + 1].stride>>

WithoutGaps == BindingIndices = 0..(program.mActiveVertexVkBuffersCount - 1)

\* C18 as stated: the binding indices are 0..n-1 without gaps, and a pair has
\* a smaller index than another exactly when its first occupied slot is met
\* earlier in the iteration over the live attributes and their locations.
C18_FirstSeenOrder ==
    Regenerated =>
        /\ WithoutGaps
        /\ \A a, b \in BindingIndices : a < b <=> FirstSeen(a) < FirstSeen(b)

\* C18 amended: the binding indices are 0..n-1 without gaps, and a pair has a
\* smaller index than another exactly when it is the smaller key of the map:
\* its buffer handle is smaller, or the handles are equal and its stride is.
C18_KeyOrder ==
    Regenerated =>
        /\ WithoutGaps
        /\ \A a, b \in BindingIndices :
                a < b <=> \/ PairOfBinding(a)[1] < PairOfBinding(b)[1]
                          \/ /\ PairOfBinding(a)[1] = PairOfBinding(b)[1]
                             /\ PairOfBinding(a)[2] < PairOfBinding(b)[2]

\* the slot met first has the buffer with the larger handle and got the
\* larger binding index
C18_Witness ==
    /\ Regenerated /\ ~modeLineLoop
    /\ VisitedLocations(program)[1] = 0
    /\ genericVertAttribs[0].buffer = 2
    /\ genericVertAttribs[1].buffer = 1
    /\ 1 \in OccupiedSlots
    /\ BindingOf(program, 0) = 1
    /\ BindingOf(program, 1) = 0

(***************************************************************************)
(* Regeneration only when something changed                                *)
(***************************************************************************)
\* a call for which the caller reports no attribute update, no occupied slot
\* reports a changed buffer, and the draw is not a line loop without an
\* active index buffer
QuietPrepare ==
    \E lineLoop \in BOOLEAN, updatedVBO \in SUBSET Locations :
        /\ ~(lineLoop /\ program.mActiveIndexVkBuffer = VK_NULL_HANDLE)
        /\ updatedVBO \cap OccupiedSlots = {}
        /\ PrepareVertexAttribBufferObjects(lineLoop, FALSE, updatedVBO,
                [k \in 1..GLOVE_MAX_VERTEX_ATTRIBS |-> NumVertexBuffers + k])

VertexInputUnchanged ==
    /\ program'.mActiveVertexVkBuffers = program.mActiveVertexVkBuffers
    /\ program'.mActiveVertexVkBuffersCount = program.mActiveVertexVkBuffersCount
    /\ program'.mVkVertexInputBinding = program.mVkVertexInputBinding
    /\ program'.mVkVertexInputAttribute = program.mVkVertexInputAttribute
    /\ program'.vertexBindingDescriptionCount = program.vertexBindingDescriptionCount
    /\ program'.vertexAttributeDescriptionCount = program.vertexAttributeDescriptionCount

\* C19: when the caller reports no attribute update, no occupied slot reports
\* a changed buffer and the line-loop copy path is not taken,
\* PrepareVertexAttribBufferObjects returns false and leaves the active
\* vertex buffers, their count, and the binding and attribute descriptions
\* and their counts as they were.
C19_NoChangeNoRegeneration ==
    [][ret'.op = "PrepareVertexAttribBufferObjects" /\ QuietPrepare =>
            ~ret'.value /\ VertexInputUnchanged]_vars

\* a quiet call returned false on a program whose vertex input an earlier
\* call had produced, after the client had pointed a slot elsewhere
C19_Witness ==
    /\ ret.op = "PrepareVertexAttribBufferObjects" /\ ~ret.value
    /\ program.vertexAttributeDescriptionCount > 0
    /\ \E l \in OccupiedSlots :
          genericVertAttribs[l].buffer # program.mActiveVertexVkBuffers[BindingOf(program, l) + 1]

(***************************************************************************)
(* The three states of the descriptor objects                              *)
(***************************************************************************)
Absent(p) == DescriptorHandles(p) = <<VK_NULL_HANDLE, VK_NULL_HANDLE, VK_NULL_HANDLE, VK_NULL_HANDLE>>

LayoutOnly(p) ==
    /\ p.mVkDescSetLayout # VK_NULL_HANDLE /\ p.mVkPipelineLayout # VK_NULL_HANDLE
    /\ p.mVkDescPool = VK_NULL_HANDLE /\ p.mVkDescSet = VK_NULL_HANDLE

FullyAllocated(p) == \A i \in 1..4 : DescriptorHandles(p)[i] # VK_NULL_HANDLE

\* the last operation was a link or a binary load that succeeded
LinkedOrLoaded == ret.op \in {"LinkProgram", "UsePrecompiledBinary"} /\ ret.value

\* C20: between operations the descriptor objects are absent, layout-only or
\* fully allocated, layout-only only with a program of zero uniform blocks;
\* after a successful link or binary load they are layout-only if the
\* program has no live uniform block and fully allocated otherwise; and
\* ReleaseVkObjects, in whatever state it is called, leaves them absent.
C20_ThreeDescriptorStates ==
    /\ Absent(program) \/ LayoutOnly(program) \/ FullyAllocated(program)
    /\ LayoutOnly(program) => Len(program.sri.blocks) = 0
    /\ LinkedOrLoaded =>
            IF Len(program.sri.blocks) = 0 THEN LayoutOnly(program)
            ELSE FullyAllocated(program)
    /\ Absent(ReleaseVkObjects(Start).p)
    /\ ret.op = "~ShaderProgram" => Absent(program)

\* a binary was loaded into a program that then has no uniform block and
\* holds the two layouts alone
C20_Witness ==
    /\ ret.op = "UsePrecompiledBinary" /\ ret.value
    /\ Len(program.sri.blocks) = 0
    /\ LayoutOnly(program)

(***************************************************************************)
(* The first descriptor update after a build                               *)
(***************************************************************************)
BothDirty(p) == p.mUpdateDescriptorSets /\ p.mUpdateDescriptorData

\* the last operation was the first UpdateDescriptorSet since the interface
\* of the program was built
FirstUpdateSinceBuild ==
    /\ ret.op = "UpdateDescriptorSet"
    /\ lastUpdate.nth = 1
    /\ Len(program.sri.blocks) > 0

\* C21: a resource-interface build, in whatever state of the program, sets
\* both dirty flags; they stay set until the first UpdateDescriptorSet, which
\* on a program with uniform blocks flushes the uniform data, issues the
\* native descriptor write and returns with both flags clear.
C21_FirstUpdateResyncs ==
    /\ \A r \in Reflections : BothDirty(BuildShaderResourceInterface(Start, r).p)
    /\ lastUpdate.nth = 0 => BothDirty(program)
    /\ FirstUpdateSinceBuild =>
            /\ CountOf(calls, "UpdateUniformBufferData") = 1
            /\ NativeDescriptorWrites = 1
            /\ ~program.mUpdateDescriptorSets /\ ~program.mUpdateDescriptorData

\* the first update came with no uniform written and no texture bound since
\* the link, and it flushed and wrote
C21_Witness ==
    /\ FirstUpdateSinceBuild
    /\ lastUpdate.writes = {}
    /\ calls = <<"UpdateUniformBufferData", "vkUpdateDescriptorSets">>

(***************************************************************************)
(* Uniform writes and the descriptor objects                               *)
(***************************************************************************)
UniformWriteOps == {"SetUniformData", "SetUniformSampler", "UpdateBuiltInUniformData"}

\* the step changed nothing of the program but the client data of the
\* uniforms, the cached depth range and the two dirty flags
OnlyShadowAndFlags ==
    /\ program' = [program EXCEPT !.sri.clientData = program'.sri.clientData,
                                  !.mMinDepthRange = program'.mMinDepthRange,
                                  !.mMaxDepthRange = program'.mMaxDepthRange,
                                  !.mUpdateDescriptorSets = program'.mUpdateDescriptorSets,
                                  !.mUpdateDescriptorData = program'.mUpdateDescriptorData]
    /\ descriptorSet' = descriptorSet
    /\ \A i \in 1..Len(calls') : calls'[i] = "SetUniformData"

\* C22: SetUniformData, SetUniformSampler, UpdateBuiltInUniformData and
\* UpdateDescriptorSet create, destroy and replace no descriptor-set layout,
\* pool, set or pipeline layout: the native objects and the four handles of
\* the program are the same after the call.  The three uniform writes change
\* the client-side data and the dirty flags of the program and nothing else.
C22_WritesLeaveDescriptorObjects ==
    [][ /\ vkObjects' = vkObjects
        /\ DescriptorHandles(program') = DescriptorHandles(program)
        /\ ret'.op \in UniformWriteOps => OnlyShadowAndFlags ]_vars

\* a depth-range change after the first update wrote a built-in uniform of a
\* program that holds its four descriptor objects
C22_Witness ==
    /\ ret.op = "UpdateBuiltInUniformData"
    /\ calls = <<"SetUniformData">>
    /\ lastUpdate.nth >= 1
    /\ program.mUpdateDescriptorData
    /\ Cardinality(Held(program)) = 4

(***************************************************************************)
(* Bind counts and stage slots                                             *)
(***************************************************************************)
\* the number of stage slots, over all programs, that hold shader s
SlotsHolding(s) ==
    Cardinality({ps \in Programs \X {1, 2} : mShaders[ps[1]][ps[2]] = s})

\* C23: after any sequence of AttachShader, DetachShader and DetachShaders on
\* any programs, the bind count of every shader is the number of stage slots
\* that hold it.
C23_BindCountEqualsSlots ==
    \A s \in Shaders : shState[s] = "live" => shRef[s] = SlotsHolding(s)

\* C23, one direction: no slot holds a shader without a bind of that shader.
C23_EverySlotHasItsBind ==
    \A s \in Shaders : shState[s] = "live" => shRef[s] >= SlotsHolding(s)

(***************************************************************************)
(* Life of the native descriptor objects                                   *)
(***************************************************************************)
LiveObjects(objs) == {h \in 1..Len(objs) : objs[h].live}

\* the number of destroy and free calls among the calls
Destroys(cs) == Len(SelectSeq(cs, LAMBDA c : c \in DestroyCalls))

\* the handle is null or names a live object of the kind
LiveOfKind(h, kind) ==
    h = VK_NULL_HANDLE \/ (h \in LiveObjects(vkObjects) /\ vkObjects[h].kind = kind)

\* the four handles of the program name live objects of their kinds, each
\* its own
HandlesAreLive ==
    /\ LiveOfKind(program.mVkDescSetLayout, "layout")
    /\ LiveOfKind(program.mVkDescPool, "pool")
    /\ LiveOfKind(program.mVkDescSet, "set")
    /\ LiveOfKind(program.mVkPipelineLayout, "pipelineLayout")

\* C24: over links, relinks, binary loads and destruction the handles of the
\* program name live objects only (nothing is used after its destruction);
\* a destroyed object never comes back, and an operation makes exactly one
\* destroy call per object that it ends, so none is destroyed twice; the
\* set is freed before its pool is destroyed; the live objects the program
\* does not hold are the same before and after every operation on it, so
\* no handle is overwritten while its object is live; and the destructor
\* leaves no object of the program alive.
C24_DestroyedExactlyOnce ==
    [][ /\ HandlesAreLive /\ HandlesAreLive'
        /\ Len(vkObjects') >= Len(vkObjects)
        /\ \A h \in 1..Len(vkObjects) :
                /\ vkObjects'[h].kind = vkObjects[h].kind
                /\ ~vkObjects[h].live => ~vkObjects'[h].live
        /\ ret'.op # "ShaderProgram" =>
                /\ calls' # calls \/ vkObjects' # vkObjects =>
                        Destroys(calls') = Cardinality(LiveObjects(vkObjects) \ LiveObjects(vkObjects'))
                /\ LiveObjects(vkObjects') \ Held(program') = LiveObjects(vkObjects) \ Held(program)
                /\ \A i, j \in 1..Len(calls') :
                        calls'[i] = "vkFreeDescriptorSets" /\ calls'[j] = "vkDestroyDescriptorPool"
                            => i < j
        /\ ret'.op = "~ShaderProgram" => Held(program') = {}
      ]_vars

\* a program linked, relinked and destroyed: eight objects made, none alive
C24_Witness ==
    /\ ret.op = "~ShaderProgram"
    /\ Len(vkObjects) = MaxVkObjects
    /\ LiveObjects(vkObjects) = {}
    /\ Destroys(calls) = 4

(***************************************************************************)
(* The order of the steps of LinkProgram                                   *)
(***************************************************************************)
\* the steps of a LinkProgram run in the order claimed, validation first and
\* the limit check last
LinkSteps ==
    <<"ValidateProgram", "ResetVulkanVertexInput", "PrepareReflection",
      "UpdateAttributeInterface", "PreprocessShader(VERTEX)", "PreprocessShader(FRAGMENT)",
      "LinkProgram", "BuildShaderResourceInterface", "GetNumberOfActiveUniforms">>

\* the steps among the calls, in the order made
StepsOf(cs) == SelectSeq(cs, LAMBDA c : \E i \in 1..Len(LinkSteps) : LinkSteps[i] = c)

\* how many of the steps a run with these compiler answers is to make
StepsDue(c) ==
    IF ~c.vertex THEN 5 ELSE IF ~c.fragment THEN 6 ELSE IF ~c.link THEN 7 ELSE 9

\* the native calls of the build lie between the build step and the limit check
NativeCallsWithinBuild(cs) ==
    \A i \in 1..Len(cs) :
        cs[i] \in DestroyCalls \cup {"vkCreateDescriptorSetLayout", "vkCreatePipelineLayout",
                                    "vkCreateDescriptorPool", "vkAllocateDescriptorSets"}
        => /\ \E k \in 1..(i - 1) : cs[k] = "BuildShaderResourceInterface"
           /\ \E k \in (i + 1)..Len(cs) : cs[k] = "GetNumberOfActiveUniforms"

\* C25: a LinkProgram run that passes validation makes its steps in the order
\* reset of the vertex-input state, reflection pre-pass, attribute-interface
\* update, vertex preprocessing, fragment preprocessing, external link,
\* resource-interface build, limit check, and stops at the first step that
\* fails: after a failed vertex preprocessing nothing follows, after a failed
\* fragment preprocessing no link, after a failed link no build.
C25_StepsInOrderStopAtFailure ==
    [][ \A c \in CompilerAnswers :
            LinkProgram(c) /\ StagesReady(mShaders[1]) /\ c.valid =>
                /\ StepsOf(calls') = SubSeq(LinkSteps, 1, StepsDue(c))
                /\ NativeCallsWithinBuild(calls')
                /\ ret'.value = (StepsDue(c) = 9 /\ ~ExceedsLimits(program'))
      ]_vars

\* a run stopped by the fragment stage, and before it a run that went through
C25_Witness ==
    /\ ret.op = "LinkProgram"
    /\ StepsOf(calls) = SubSeq(LinkSteps, 1, 6)
    /\ ~ret.value
    /\ Cardinality(Held(program)) = 4

(***************************************************************************)
(* The linked flag                                                         *)
(***************************************************************************)
\* C26: after a LinkProgram call, whichever way it returned, the linked flag
\* of the program is the value returned, and the flag of a program that was
\* only ever linked is set only when its last LinkProgram returned success.
C26_LinkedFlagIsReturnValue ==
    /\ ret.op = "LinkProgram" => program.mLinked = ret.value
    /\ program.mLinked => ret.op = "LinkProgram" /\ ret.value

\* C26, with binary loads: the flag goes from false to true only in a
\* LinkProgram that returns success or in UsePrecompiledBinary, and a
\* program's flag is the value its LinkProgram returned until the next
\* operation that sets it.
C26_FlagRisesOnlyByLinkOrLoad ==
    [][ /\ program'.mLinked /\ ~program.mLinked =>
                \/ ret'.op = "LinkProgram" /\ ret'.value
                \/ ret'.op = "UsePrecompiledBinary"
        /\ ret'.op = "LinkProgram" => program'.mLinked = ret'.value
        /\ ret'.op = "UsePrecompiledBinary" => program'.mLinked ]_vars

\* a run that got through the external link and failed the limit check
C26_Witness ==
    /\ ret.op = "LinkProgram"
    /\ CountOf(calls, "GetNumberOfActiveUniforms") = 1
    /\ ~ret.value /\ ~program.mLinked

(***************************************************************************)
(* The maximum index a prepared draw reports                               *)
(***************************************************************************)
\* the last operation was a PrepareIndexBufferObject that handed a buffer,
\* a first index and a maximum index to the draw
IndexBufferPrepared ==
    /\ ret.op = "PrepareIndexBufferObject"
    /\ indexDraw.written /\ ~indexDraw.failed /\ ~indexDraw.crashed
    /\ indexDraw.indexCount >= 1

\* the indices the draw references: those the client gave, the last of them
\* replaced by the first in a line loop
DrawnIndices ==
    IF indexDraw.lineLoop
    THEN {indexDraw.values[i] : i \in 1..(indexDraw.indexCount - 1)} \cup {indexDraw.values[1]}
    ELSE {indexDraw.values[i] : i \in 1..indexDraw.indexCount}

\* C27: for every element type and every index sequence of at least one
\* element, a successful PrepareIndexBufferObject reports as maximum index
\* the largest of the indices the draw references.
C27_MaxIndexIsLargest ==
    IndexBufferPrepared => indexDraw.maxIndex = SetMax(DrawnIndices)

\* C27 for one- and two-byte indices outside line-loop mode: the maximum
\* reported is the largest index.
C27_MaxIndexOfNarrowTypes ==
    IndexBufferPrepared /\ indexDraw.type # GL_UNSIGNED_INT /\ ~indexDraw.lineLoop
        => indexDraw.maxIndex = SetMax(DrawnIndices)

(***************************************************************************)
(* The pipeline-cache data of a loaded binary                              *)
(***************************************************************************)
\* the last operation was a UsePrecompiledBinary that ran to its end
BinaryLoaded ==
    /\ ret.op = "UsePrecompiledBinary"
    /\ binaryOf.load = "completed"

\* the words of the binary behind the reflection blob and the two SPIR-V blocks
WordsBehindSpirv ==
    LET reflectionLength == DeserializeReflection(binary).size
        spirvBlockLength == SpirvBlocks(WordsFrom(binary, reflectionLength \div 4)).size
    IN WordsFrom(binary, (reflectionLength + spirvBlockLength) \div 4)

\* C28: UsePrecompiledBinary hands the pipeline cache the bytes of the binary
\* that remain behind the reflection blob and the two SPIR-V blocks: they
\* start at reflectionLength + spirvBlockLength, there are binarySize -
\* reflectionLength - spirvBlockLength of them, and none lies behind the end
\* of the binary.
C28_CacheGetsTheRemainingBytes ==
    BinaryLoaded =>
        /\ program.mPipelineCache.data = WordsBehindSpirv
        /\ 4 * Len(WordsBehindSpirv) =
                binarySize - DeserializeReflection(binary).size
                    - SpirvBlocks(WordsFrom(binary, DeserializeReflection(binary).size \div 4)).size

\* C28, the start alone: the data handed over begins with the bytes of the
\* binary behind the two SPIR-V blocks.
C28_CacheDataStartsBehindSpirv ==
    BinaryLoaded =>
        /\ Len(program.mPipelineCache.data) >= Len(WordsBehindSpirv)
        /\ SubSeq(program.mPipelineCache.data, 1, Len(WordsBehindSpirv)) = WordsBehindSpirv

(***************************************************************************)
(* Shaders of swept programs                                               *)
(***************************************************************************)
\* every program that holds shader s in a stage slot is one the sweep frees
AttachedOnlyToSwept(s) ==
    \A p \in Programs : IsShaderAttached(mShaders[p], s) => p \in SweptPrograms

\* C29: a shader in the shader purge list that is attached only to programs
\* the sweep deallocates is deallocated by the same sweep.
C29_ShaderGoesWithItsPrograms ==
    [][ CleanPurgeList =>
            \A s \in mPurgeListShaders :
                AttachedOnlyToSwept(s) => shState'[s] = "freed" /\ s \notin mPurgeListShaders'
      ]_vars

\* C29, the state the sweep leaves: no shader that is free for deletion is
\* left in the shader purge list, because the programs are swept, and their
\* shaders detached, before the shaders are looked at.
C29_NoFreeShaderLeftBehind ==
    [][ CleanPurgeList =>
            \A s \in mPurgeListShaders' : ~FreeForDeletion(shMark'[s], shRef'[s]) ]_vars

\* C29 where every bind is accounted for by a slot: the shader goes with its
\* programs.
C29_GoesWhenBindsMatchSlots ==
    [][ CleanPurgeList =>
            \A s \in mPurgeListShaders :
                shRef[s] = SlotsHolding(s) /\ AttachedOnlyToSwept(s)
                    => shState'[s] = "freed" /\ s \notin mPurgeListShaders'
      ]_vars

(***************************************************************************)
(* The shading-ID pool across a sweep                                      *)
(***************************************************************************)
\* the objects of an array that the step deallocated
DeallocatedBy(state, stateAfter) ==
    {o \in DOMAIN state : state[o] # "freed" /\ stateAfter[o] = "freed"}

\* the IDs under which the pool holds an object of the set
IdsOfObjects(type, objs) ==
    {id \in DOMAIN mShadingObjectPool :
        /\ mShadingObjectPool[id].type = type
        /\ mShadingObjectPool[id].arrayIndex \in objs}

\* C30: a sweep erases from the shading-ID pool the IDs of the programs and
\* shaders it deallocates, one for each, and no other; IsShadingObject is
\* false afterwards for each of these IDs and either type; the entries of
\* the objects not deallocated are as before.
C30_SweepErasesExactlyTheDeallocated ==
    [][ CleanPurgeList =>
            LET progs == DeallocatedBy(prState, prState')
                shs == DeallocatedBy(shState, shState')
                gone == IdsOfObjects(SHADER_PROGRAM_ID, progs) \cup IdsOfObjects(SHADER_ID, shs)
            IN /\ DOMAIN mShadingObjectPool' = DOMAIN mShadingObjectPool \ gone
               /\ Cardinality(gone) = Cardinality(progs) + Cardinality(shs)
               /\ \A id \in DOMAIN mShadingObjectPool' :
                        mShadingObjectPool'[id] = mShadingObjectPool[id]
               /\ \A id \in gone, type \in {SHADER_ID, SHADER_PROGRAM_ID} :
                        ~IsShadingObject(id, type)'
               /\ mShadingObjectCount' = mShadingObjectCount
      ]_vars

\* sweeps have deallocated a program and a shader, whose IDs are gone from the
\* pool, and the pool still holds the ID of an object that lives
C30_Witness ==
    /\ \E p \in Programs : prState[p] = "freed"
    /\ \E s \in Shaders : shState[s] = "freed"
    /\ \E id \in 1..(mShadingObjectCount - 1) : id \notin DOMAIN mShadingObjectPool
    /\ \E id \in DOMAIN mShadingObjectPool :
            /\ IsShadingObject(id, SHADER_ID)
            /\ shState[mShadingObjectPool[id].arrayIndex] = "live"

(***************************************************************************)
(* Failing steps of PrepareIndexBufferObject                               *)
(***************************************************************************)
\* the last operation was a PrepareIndexBufferObject that returned, and one
\* of its conversion or allocation steps failed
IndexStepFailed ==
    /\ ret.op = "PrepareIndexBufferObject"
    /\ indexDraw.failed /\ ~indexDraw.crashed

\* the call handed nothing to the draw
NothingHandedToDraw ==
    /\ program.mActiveIndexVkBuffer = VK_NULL_HANDLE
    /\ ~indexDraw.written

\* C31: when a conversion or explicit-buffer allocation step of
\* PrepareIndexBufferObject fails, in any draw mode, the active index buffer
\* handle is null on return and neither the first index nor the maximum
\* index was written.
C31_FailureLeavesOutputsUnwritten ==
    IndexStepFailed => NothingHandedToDraw

\* C31 outside line-loop mode: a failing step leaves the handle null and the
\* outputs unwritten.
C31_FailureOutsideLineLoop ==
    IndexStepFailed /\ ~indexDraw.lineLoop => NothingHandedToDraw

\* C31 for the step that comes last: when the last allocation the call makes
\* fails, the handle is null and the outputs are unwritten, in any draw mode.
C31_LastAllocationFailed ==
    IndexStepFailed /\ ~indexDraw.validatedBuffer => NothingHandedToDraw

(***************************************************************************)
(* The entry assertions of UpdateDescriptorSet                             *)
(***************************************************************************)
\* C32: in every state in which UpdateDescriptorSet can be called on a
\* linked program, a program without uniform blocks included, the descriptor
\* set handle the entry assertion tests is not null, and no call of
\* UpdateDescriptorSet has found it null.
C32_EntryAssertionsHold ==
    program.mLinked =>
        /\ program.mVkDescSet # VK_NULL_HANDLE
        /\ ret.op = "UpdateDescriptorSet" => CountOf(calls, "assert(mVkDescSet)") = 0

\* C32 for programs with at least one uniform block: the handle is not null
\* while the program is linked.
C32_SetHeldWithBlocks ==
    program.mLinked /\ Len(program.sri.blocks) > 0 => program.mVkDescSet # VK_NULL_HANDLE

(***************************************************************************)
(* The built-in depth-range uniforms                                       *)
(***************************************************************************)
\* the client data of the fields of gl_DepthRange that are live uniforms are
\* the values of this depth range
DepthRangeStored(p, l, minDepthRange, maxDepthRange) ==
    /\ l["near"] # -1 => p.sri.clientData[l["near"]] = minDepthRange
    /\ l["far"] # -1 => p.sri.clientData[l["far"]] = maxDepthRange
    /\ l["diff"] # -1 => p.sri.clientData[l["diff"]] = maxDepthRange - minDepthRange

\* C33: after any links, relinks and earlier calls, when
\* UpdateBuiltInUniformData(min, max) has returned the client-side values of
\* gl_DepthRange.near, .far and .diff are min, max and max - min.
C33_DepthRangeStoredOnReturn ==
    [][ \A minDepthRange \in DepthRanges, maxDepthRange \in DepthRanges :
        \A l \in DepthRangeLocations(program) :
            UpdateBuiltInUniformData(minDepthRange, maxDepthRange, l) =>
                DepthRangeStored(program', l, minDepthRange, maxDepthRange) ]_vars

\* C33 for a call whose depth range differs from the one the program
\* remembers: the values are stored.
C33_StoredWhenRangeDiffers ==
    [][ \A minDepthRange \in DepthRanges, maxDepthRange \in DepthRanges :
        \A l \in DepthRangeLocations(program) :
            /\ UpdateBuiltInUniformData(minDepthRange, maxDepthRange, l)
            /\ program.mMinDepthRange # minDepthRange \/ program.mMaxDepthRange # maxDepthRange
            => DepthRangeStored(program', l, minDepthRange, maxDepthRange) ]_vars

\* the state the relink case of C33 ends in: the program was relinked, the
\* call that followed returned without a write, and the client data of its
\* second uniform is not the depth range the program remembers
C33_StaleAfterRelink ==
    /\ ret.op = "UpdateBuiltInUniformData" /\ calls = <<>>
    /\ program.sri.stamp > 1
    /\ <<program.mMinDepthRange, program.mMaxDepthRange>> = <<0, 1>>
    /\ Len(program.sri.clientData) = 2
    /\ program.sri.clientData[2] \notin {0 - 1, 1}

(***************************************************************************)
(* The SPIR-V blocks of a binary, written and read back                    *)
(***************************************************************************)
\* the two SPIR-V blocks DeserializeShadersSpirv finds in the binary
BlocksOfBinary ==
    SpirvBlocks(WordsFrom(binary, DeserializeReflection(binary).size \div 4))

\* the byte count SerializeShadersSpirv returned when the binary was written
SerializedSpirvBytes == 2 * 4 + 4 * Len(binaryOf.spv[1]) + 4 * Len(binaryOf.spv[2])

\* the attached stage shaders hold exactly the word sequences spv
StageShadersHold(spv, slots, words) ==
    \A i \in 1..2 : slots[i] # NullPtr => spv[slots[i]] = words[i]

\* C34: DeserializeShadersSpirv applied to the bytes SerializeShadersSpirv
\* wrote returns the byte count serialization returned and leaves the attached
\* vertex and fragment shaders holding exactly the serialized word sequences,
\* whatever SPIR-V those shaders held before the call.
C34_RoundTripRestoresSpirv ==
    BinaryLoaded =>
        /\ BlocksOfBinary.size = SerializedSpirvBytes
        /\ StageShadersHold(shSpv, mShaders[1], binaryOf.spv)

\* C34, what the read does return and store: the byte count serialization
\* returned and the serialized words themselves, which every attached stage
\* shader has behind the words it held before the call.
C34_RoundTripAppendsSpirv ==
    [][ ret'.op = "UsePrecompiledBinary" /\ binaryOf'.load = "completed" /\ ret' # ret =>
            /\ BlocksOfBinary.size = SerializedSpirvBytes
            /\ <<BlocksOfBinary.vs, BlocksOfBinary.fs>> = binaryOf.spv
            /\ StageShadersHold(shSpv', mShaders[1],
                                [i \in 1..2 |-> IF mShaders[1][i] = NullPtr THEN <<>>
                                                ELSE shSpv[mShaders[1][i]] \o binaryOf.spv[i]]) ]_vars

\* a load into attached shaders that held SPIR-V of their own
C34_LoadedBehindOldSpirv ==
    /\ BinaryLoaded
    /\ mShaders[1][1] # NullPtr
    /\ binaryOf.spv[1] # <<>>
    /\ Len(shSpv[mShaders[1][1]]) > Len(binaryOf.spv[1])

(***************************************************************************)
(* The three cases of sampler resolution                                   *)
(***************************************************************************)
\* the sampler uniforms of the program whose bound texture satisfies Case
SamplersWhere(Case(_)) ==
    {i \in 1..Len(program.sri.uniforms) :
        /\ IsSampler(program.sri.uniforms[i])
        /\ Case(ActiveTextureOf(program, activeTexture, i))}

AnyTexture(t) == TRUE
NotSamplable(t) == ~Samplable(t)
SamplableAttached(t) == Samplable(t) /\ IsTextureAttachedToFBO(mFramebuffers, t)
SamplableUnattached(t) == Samplable(t) /\ ~IsTextureAttachedToFBO(mFramebuffers, t)

\* C35: a descriptor update that resolves the samplers treats every live
\* sampler uniform by the first case that applies: a bound texture that is
\* incomplete or fails the non-power-of-two access rule gets the 1x1 contents
\* and its own image is written, attached to a framebuffer or not, and no copy
\* is made for it; otherwise a texture that is a framebuffer's color
\* attachment is read through a copy made by the update; otherwise the bound
\* texture itself is written.  Every descriptor written names the native
\* sampler of the texture it refers to, created by the update.
C35_ThreeCasesInPriorityOrder ==
    ResolvedSamplers =>
        /\ \A i \in SamplersWhere(NotSamplable) :
                /\ SamplerDescriptor(i).how = "placeholder"
                /\ SamplerDescriptor(i).image = ActiveTextureOf(program, activeTexture, i)
        /\ \A i \in SamplersWhere(SamplableAttached) :
                /\ SamplerDescriptor(i).how = "copy"
                /\ ReadsNewCopy(i)
        /\ \A i \in SamplersWhere(SamplableUnattached) :
                /\ SamplerDescriptor(i).how = "direct"
                /\ SamplerDescriptor(i).image = ActiveTextureOf(program, activeTexture, i)
        /\ CountOf(calls, "SetState") = Cardinality(SamplersWhere(NotSamplable))
        /\ CountOf(calls, "new Texture") = Cardinality(SamplersWhere(SamplableAttached))
        /\ CountOf(calls, "CreateVkSampler") = Cardinality(SamplersWhere(AnyTexture))
        /\ \A i \in SamplersWhere(AnyTexture) :
                /\ SamplerDescriptor(i).sampler # VK_NULL_HANDLE
                /\ SamplerDescriptor(i).sampler = SamplerDescriptor(i).image

\* C35 witness: an incomplete texture that is a framebuffer's color attachment
\* was resolved to its own image with the 1x1 contents, without a copy
C35_Witness ==
    /\ ResolvedSamplers
    /\ \E i \in SamplersWhere(NotSamplable) :
        /\ IsTextureAttachedToFBO(mFramebuffers, ActiveTextureOf(program, activeTexture, i))
        /\ SamplerDescriptor(i).how = "placeholder"
        /\ SamplerDescriptor(i).sampler # VK_NULL_HANDLE
    /\ CountOf(calls, "new Texture") = 0

(***************************************************************************)
(* One ID space for shaders and programs                                   *)
(***************************************************************************)
\* the IDs a client can ask about: 0, every ID handed out, and the next one
AskedIds == 0..mShadingObjectCount

ShadingTypes == {SHADER_ID, SHADER_PROGRAM_ID}

\* the object the pool entry of id stands for is allocated, and is of the kind
\* the tag names
TaggedObjectExists(id, type) ==
    LET arrayIndex == mShadingObjectPool[id].arrayIndex
    IN IF type = SHADER_ID
       THEN arrayIndex \in Shaders /\ shState[arrayIndex] # "none"
       ELSE arrayIndex \in Programs /\ prState[arrayIndex] # "none"

\* C36: shader and program IDs come from one ID space and the type tag tells
\* them apart.  IsShadingObject(id, type) is true only of an ID that is not
\* zero, lies below the allocation counter, is in the pool with a non-zero
\* array index and carries the tag type, the one its object was pushed with;
\* no ID is reported both as a shader and as a program.
C36_TypeTagTellsApart ==
    /\ \A id \in AskedIds, type \in ShadingTypes :
            IsShadingObject(id, type) =>
                /\ id # 0
                /\ id < mShadingObjectCount
                /\ id \in DOMAIN mShadingObjectPool
                /\ mShadingObjectPool[id].arrayIndex # 0
                /\ mShadingObjectPool[id].type = type
                /\ TaggedObjectExists(id, type)
    /\ \A id \in AskedIds :
            ~(IsShadingObject(id, SHADER_ID) /\ IsShadingObject(id, SHADER_PROGRAM_ID))

\* C36, the tag over time: an entry keeps the tag and the array index it was
\* pushed with as long as it is in the pool, and an entry that appears is
\* stored under the value of the allocation counter, which then grows by one.
C36_TagIsTheOnePushed ==
    [][ /\ \A id \in DOMAIN mShadingObjectPool \cap DOMAIN mShadingObjectPool' :
                mShadingObjectPool'[id] = mShadingObjectPool[id]
        /\ \A id \in DOMAIN mShadingObjectPool' \ DOMAIN mShadingObjectPool :
                /\ id = mShadingObjectCount
                /\ mShadingObjectCount' = mShadingObjectCount + 1
                /\ \A type \in ShadingTypes :
                        mShadingObjectPool'[id].type = type => TaggedObjectExists(id, type)' ]_vars

\* C36 witness: the pool holds a shader ID and a program ID, each reported
\* under its own type only, and an ID below the counter that was erased
C36_Witness ==
    /\ \E id \in AskedIds, other \in AskedIds :
        /\ IsShadingObject(id, SHADER_ID) /\ ~IsShadingObject(id, SHADER_PROGRAM_ID)
        /\ IsShadingObject(other, SHADER_PROGRAM_ID) /\ ~IsShadingObject(other, SHADER_ID)
    /\ \E id \in AskedIds :
        /\ id # 0 /\ id < mShadingObjectCount
        /\ ~ShadingObjectExists(id)

(***************************************************************************)
(* Framebuffers marked by UpdateFramebufferObjects                         *)
(***************************************************************************)
\* the attachments of a framebuffer: everything but its updated state
AttachmentsOf(fb) ==
    <<fb.colorType, fb.colorName, fb.depthType, fb.depthName, fb.stencilType, fb.stencilName>>

\* C37: UpdateFramebufferObjects(index, target) marks as updated exactly the
\* framebuffers that have a color, depth or stencil attachment of type target
\* and name index; the updated state of every other framebuffer and the
\* attachments of all framebuffers are as before the call.
C37_MarksExactlyTheAttached ==
    [][ ret'.op = "UpdateFramebufferObjects" =>
        \A index \in 0..(NumAttachmentNames + 1), target \in AttachmentTypes :
            UpdateFramebufferObjects(index, target) =>
                /\ DOMAIN mFramebuffers' = DOMAIN mFramebuffers
                /\ \A f \in DOMAIN mFramebuffers :
                    /\ AttachmentsOf(mFramebuffers'[f]) = AttachmentsOf(mFramebuffers[f])
                    /\ mFramebuffers'[f].updated =
                            IF \E point \in AttachmentPoints :
                                    Attached(mFramebuffers[f], point, target, index)
                                        = mFramebuffers[f]
                            THEN TRUE
                            ELSE mFramebuffers[f].updated ]_vars

\* C37 witness: the call marked one framebuffer for its depth attachment, the
\* only attachment it has, and left unmarked another whose only attachment,
\* the color attachment, has the same name and another type
C37_Witness ==
    /\ ret.op = "UpdateFramebufferObjects"
    /\ Len(calls) = 1
    /\ \E f \in DOMAIN mFramebuffers, g \in DOMAIN mFramebuffers :
        /\ mFramebuffers[f].updated
        /\ mFramebuffers[f].depthType # GL_NONE
        /\ mFramebuffers[f].colorType = GL_NONE /\ mFramebuffers[f].stencilType = GL_NONE
        /\ ~mFramebuffers[g].updated
        /\ mFramebuffers[g].colorType \notin {GL_NONE, mFramebuffers[f].depthType}
        /\ mFramebuffers[g].colorName = mFramebuffers[f].depthName
        /\ mFramebuffers[g].depthType = GL_NONE /\ mFramebuffers[g].stencilType = GL_NONE
=============================================================================
